---- MODULE Spec2Model ----
(***************************************************************************)
(* Polling-and-archival pipeline of ms-email-automation-to-drive:          *)
(* pollingService.js (startPolling, stopPolling, pollAllMailboxes,         *)
(* pollMailbox, processMessageAttachments) with the stores and services it *)
(* calls (mailboxService, msConnectionService, usageEventService,          *)
(* secretManager, sharePointService) and the revoke route of connect.js.   *)
(*                                                                         *)
(* One action is one awaited operation of the code together with the       *)
(* synchronous code that follows it up to the next await.  Every awaited   *)
(* database or remote call may throw.                                      *)
(***************************************************************************)
EXTENDS Integers, Sequences, FiniteSets, Bags, TLC

\* ------------------------------------------------------------------ bounds
\* poll cycles that may be in progress at the same time
MaxCycles == 2
\* page size of the message query; the source asks for top(50), the model
\* scales it to the size of the modelled inbox
PageSize == 3
\* largest value the clock reaches (minutes)
MaxTime == 6

\* ------------------------------------------------------- program constants
\* bufferTime of pollMailbox, in minutes
BufferTime == 5

\* maxSimpleUploadSize of uploadToSharePoint and chunkSize of
\* uploadLargeFile, in bytes
maxSimpleUploadSize == 4 * 1024 * 1024
chunkSize == 320 * 1024

\* ------------------------------------------------------------ optionals
None == <<>>
Some(x) == <<x>>
Range(s) == {s[i] : i \in 1..Len(s)}
Min(a, b) == IF a <= b THEN a ELSE b

\* ------------------------------------------------------------ the data
\* tenants, connections and mailboxes, in document-id order
TenantIds == <<"tA">>
ConnectionIds == <<"cA">>
MailboxIds == <<"mb1", "mb2">>
\* mb1 polls through the tenant's connection; mb2 was registered with the id
\* of a connection that does not exist (the route does not look it up)
connectionOf == ("mb1" :> "cA") @@ ("mb2" :> "cX")
\* the ids of the documents of the model in the order of their ids, which is
\* the order in which a query without orderBy returns them
DocumentIds == <<"cA", "cB", "conn_1", "conn_2", "mb1", "mb2", "tA", "tB", "tN">>
\* snapshot.docs of a collection
docs(collection) == SelectSeq(DocumentIds, LAMBDA d : d \in DOMAIN collection)

\* the messages of the remote inbox: id, receivedDateTime, attachments
MessageIds == {"m1", "m2", "m3", "m4"}
\* messages whose attachment is at, next to or above the limit of the
\* simple upload
LargeMessageIds == {"m5", "m6", "m7", "m8", "m9"}
\* a message with two inline images of one name, and a later message
ArchiveMessageIds == {"m10", "m11"}
receivedDateTime ==
    ("m1" :> 1) @@ ("m2" :> 2) @@ ("m3" :> 3) @@ ("m4" :> 3) @@
    ("m5" :> 1) @@ ("m6" :> 1) @@ ("m7" :> 1) @@ ("m8" :> 1) @@ ("m9" :> 1) @@
    ("m10" :> 1) @@ ("m11" :> 2)
attachmentsOf ==
    ("m1" :> <<"a1">>) @@ ("m2" :> <<"a2">>) @@ ("m3" :> <<"a3">>) @@ ("m4" :> <<"a4">>) @@
    ("m5" :> <<"a5">>) @@ ("m6" :> <<"a6">>) @@ ("m7" :> <<"a7">>) @@ ("m8" :> <<"a8">>) @@
    ("m9" :> <<"a9">>) @@ ("m10" :> <<"b1", "b2">>) @@ ("m11" :> <<"b3">>)
\* the length of the decoded content of each attachment, in bytes
sizeOf ==
    ("a1" :> 1024) @@ ("a2" :> 1024) @@ ("a3" :> 1024) @@ ("a4" :> 1024) @@
    ("a5" :> maxSimpleUploadSize - 1) @@ ("a6" :> maxSimpleUploadSize) @@
    ("a7" :> maxSimpleUploadSize + 1) @@ ("a8" :> 5 * 1024 * 1024) @@
    ("a9" :> 5 * 1024 * 1024 + 1) @@
    ("b1" :> 1024) @@ ("b2" :> 2048) @@ ("b3" :> 1024)

\* attachment.name, as its characters
nameOf ==
    ("a1" :> <<"a", "1", ".", "p">>) @@ ("a2" :> <<"a", "2", ".", "p">>) @@
    ("a3" :> <<"a", "3", ".", "p">>) @@ ("a4" :> <<"a", "4", ".", "p">>) @@
    ("a5" :> <<"a", "5", ".", "p">>) @@ ("a6" :> <<"a", "6", ".", "p">>) @@
    ("a7" :> <<"a", "7", ".", "p">>) @@ ("a8" :> <<"a", "8", ".", "p">>) @@
    ("a9" :> <<"a", "9", ".", "p">>) @@
    ("b1" :> <<"i", ".", "p">>) @@ ("b2" :> <<"i", ".", "p">>) @@
    ("b3" :> <<"r", ".", "p">>)

\* the renamed copies of one name that the drive of the model holds
MaxRenames == 1

\* sourceId = `${message.id}_${attachment.id}`
SourceId(m, a) == m \o "_" \o a
SourceIds ==
    UNION { {SourceId(m, attachmentsOf[m][i]) : i \in 1..Len(attachmentsOf[m])} :
              m \in MessageIds \cup LargeMessageIds \cup ArchiveMessageIds }


\* ------------------------------------------------------------ the vault
\* encryptToken wraps the bundle in a reference with the secret:// prefix,
\* decryptToken unwraps it
encryptToken(bundle) == [prefix |-> "secret://", bundle |-> bundle]
decryptToken(ref) == ref.bundle
validRef(ref) == ref.prefix = "secret://"

InitialTokens == [accessToken |-> "at1", refreshToken |-> "rt1", expiresOn |-> 10]
\* the responses of the identity provider to a refresh-token exchange: a new
\* access token, a new expiry, and a new refresh token or none
RefreshResponses ==
    { [accessToken |-> "at2", refreshToken |-> rt, expiresOn |-> 70] : rt \in {"rt2", "none"} }

VARIABLES
    tenants,          \* tenants/{t}: [status]
    msConnections,    \* tenants/{t}/msConnections/{c}: [status, tokenRef]
    mailboxes,        \* tenants/{t}/mailboxes/{mb}: [connectionId, lastCursor, status]
    usageEvents,      \* tenants/{t}/usageEvents: number of documents per sourceId
    inbox,            \* the remote mailbox behind each connection: its messages
    clock,            \* the wall clock, in minutes
    files,            \* the files of the remote drive
    folders,          \* the folders of the remote drive: their paths
    users,            \* users/{userId}: the document, None when absent
    ensure,           \* the call of ensureFolderStructure in progress
    arg,              \* the argument of the call of a function
    result,           \* what the call has returned or thrown, None before
    pkceStore,        \* the Map of connect.js: state -> verifier and ids
    issued,           \* the state values that /microsoft/start has given out
    callbacks,        \* the /microsoft/callback requests in progress: a bag
    pollingInterval,  \* the module-level interval handle, None when stopped
    timers,           \* the interval timers registered with the runtime
    cycles,           \* the invocations of pollAllMailboxes in progress: a
                      \* bag of their local states
    lastOp            \* the exported operation called last

vars == <<tenants, msConnections, mailboxes, usageEvents, inbox, clock,
          files, folders, users, ensure, arg, result,
          pkceStore, issued, callbacks,
          pollingInterval, timers, cycles, lastOp>>

\* what the polling engine does not write: the folders of the drive, the
\* users collection and the calls made outside of it
oauth == <<pkceStore, issued, callbacks>>
outside == <<folders, users, ensure, arg, result, oauth>>
store == <<tenants, msConnections, mailboxes, usageEvents, inbox, clock,
           files, outside>>
lifecycle == <<pollingInterval, timers>>

Handles == {"h1", "h2"}

\* the users of the routes that sign in with a user id
UserIds == {"u1"}

\* the folders of the archive for the month of the modelled messages, as
\* paths from the root of the drive
ArchiveFolders ==
    { <<"Shared Documents">>,
      <<"Shared Documents", "MailArchive">>,
      <<"Shared Documents", "MailArchive", "2024">>,
      <<"Shared Documents", "MailArchive", "2024", "01">> }

\* no call of ensureFolderStructure is in progress
NoCall == [pc |-> "idle", seg |-> 0, year |-> "", month |-> "",
           before |-> {}, created |-> {}]

\* the local state of one invocation of pollAllMailboxes, here of one that
\* has returned; 0 is the absent cursor (null)
IdleCycle ==
    [ pc |-> "idle",
      activeMailboxes |-> <<>>, mi |-> 0,
      tokenRef |-> None, tokens |-> None, newTokens |-> None,
      newTokenRef |-> None, accessToken |-> None,
      messages |-> <<>>, msgi |-> 0,
      attachments |-> <<>>, ai |-> 0,
      newCursor |-> 0, emailsProcessed |-> 0, attachmentsProcessed |-> 0,
      exists |-> None, upConnection |-> None, uploadResult |-> None,
      offset |-> 0, sent |-> <<>>, response |-> None ]

\* the state of the polling engine and its stores after module load and
\* database setup, with the remote inbox holding the messages msgs and the
\* clock reading now
\* connections[t] are the ids of the connections of tenant t, registered[t]
\* gives the connectionId of each of its mailboxes, and received[c] are the
\* messages of the remote inbox behind connection c
InitStores(connections, registered, received, now) ==
    /\ tenants = [t \in DOMAIN registered |-> [status |-> "active"]]
    /\ msConnections =
         [t \in DOMAIN registered |->
            [c \in connections[t] |->
               [status |-> "active", tokenRef |-> encryptToken(InitialTokens)]]]
    /\ mailboxes =
         [t \in DOMAIN registered |->
            [mb \in DOMAIN registered[t] |->
               [connectionId |-> registered[t][mb], lastCursor |-> 0, status |-> "active"]]]
    /\ usageEvents = [t \in DOMAIN registered |-> [s \in SourceIds |-> 0]]
    /\ inbox = received
    /\ clock = now
    /\ files = {}
    /\ pkceStore = <<>>
    /\ issued = {}
    /\ callbacks = EmptyBag
    /\ pollingInterval = None
    /\ timers = {}
    /\ cycles = EmptyBag
    /\ lastOp = "none"

\* one tenant with one connection, whose inbox holds the messages msgs
InitPolling(msgs, now) ==
    InitStores([t \in Range(TenantIds) |-> Range(ConnectionIds)],
               [t \in Range(TenantIds) |-> connectionOf],
               [c \in Range(ConnectionIds) |-> msgs], now)

\* the stores with the archive folders on the drive, nobody signed in and
\* no call outside of the engine
InitDrive ==
    /\ folders = ArchiveFolders
    /\ users = [u \in UserIds |-> None]
    /\ ensure = NoCall
    /\ arg = None
    /\ result = None

\* the same with the archive folders on the drive, nobody signed in and no
\* call outside of the engine
InitWith(msgs, now) ==
    /\ InitPolling(msgs, now)
    /\ folders = ArchiveFolders
    /\ users = [u \in UserIds |-> None]
    /\ ensure = NoCall
    /\ arg = None
    /\ result = None

\* polling starts when the stored token has reached its buffer window
Init == InitWith({"m1"}, InitialTokens.expiresOn - BufferTime)

\* ------------------------------------------------- startPolling, stopPolling
Running == BagToSet(cycles)
InProgress == BagCardinality(cycles)

\* a call of pollAllMailboxes(): it runs up to its first await
pollAllMailboxes ==
    /\ InProgress < MaxCycles
    /\ cycles' = cycles (+) SetToBag({[IdleCycle EXCEPT !.pc = "getAllActiveMailboxes"]})

\* startPolling without the test of pollingInterval
startPollingUnguarded ==
    /\ lastOp' = "startPolling"
    /\ UNCHANGED store
    /\ pollAllMailboxes
    /\ \E h \in Handles \ timers :
         /\ timers' = timers \cup {h}
         /\ pollingInterval' = Some(h)

startPolling ==
    /\ lastOp' = "startPolling"
    /\ UNCHANGED store
    /\ IF pollingInterval # None
       THEN UNCHANGED <<lifecycle, cycles>>
       ELSE /\ pollAllMailboxes
            /\ \E h \in Handles \ timers :
                 /\ timers' = timers \cup {h}
                 /\ pollingInterval' = Some(h)

\* stopPolling that forgets the handle without clearInterval
stopPollingKeepsTimer ==
    /\ lastOp' = "stopPolling"
    /\ UNCHANGED <<store, cycles, timers>>
    /\ pollingInterval' = None

stopPolling ==
    /\ lastOp' = "stopPolling"
    /\ UNCHANGED <<store, cycles>>
    /\ IF pollingInterval # None
       THEN /\ timers' = timers \ {pollingInterval[1]}
            /\ pollingInterval' = None
       ELSE UNCHANGED lifecycle

\* the callback of setInterval
TimerTick ==
    /\ \E h \in timers : pollAllMailboxes
    /\ lastOp' = "other"
    /\ UNCHANGED <<store, lifecycle>>

\* --------------------------------------------- the control flow of a cycle
Mailbox(c) == c.activeMailboxes[c.mi]
Message(c) == c.messages[c.msgi]
Attachment(c) == c.attachments[c.ai]
SourceIdOf(c) == SourceId(Message(c), Attachment(c))

\* the locals of pollMailbox and processMessageAttachments go out of scope
ClearPoll(c) ==
    [c EXCEPT !.tokenRef = None, !.tokens = None, !.newTokens = None,
              !.newTokenRef = None, !.accessToken = None,
              !.messages = <<>>, !.msgi = 0, !.attachments = <<>>, !.ai = 0,
              !.newCursor = 0, !.emailsProcessed = 0, !.attachmentsProcessed = 0,
              !.exists = None, !.upConnection = None, !.uploadResult = None]

\* the for loop of pollAllMailboxes moves on
nextMailbox(c) ==
    IF c.mi < Len(c.activeMailboxes)
    THEN [c EXCEPT !.pc = "getMsConnection", !.mi = c.mi + 1]
    ELSE IdleCycle

\* pollMailbox returns { emailsProcessed, attachmentsProcessed }; the totals
\* pollAllMailboxes adds them to only feed its log line
pollMailboxReturns(c) == nextMailbox(ClearPoll(c))

\* the throw of pollMailbox caught only by the outer try of pollAllMailboxes
pollMailboxThrowsEndsCycle(c) == IdleCycle

\* the mailbox that failed polled again, and again after the next failure
pollMailboxThrowsRetries(c) == [ClearPoll(c) EXCEPT !.pc = "getMsConnection"]

\* pollMailbox rethrows; pollAllMailboxes catches, logs and goes on
pollMailboxThrows(c) == nextMailbox(ClearPoll(c))

\* after the for loop over the messages of the page
afterMessages(c) ==
    IF c.newCursor # 0 /\ c.newCursor # Mailbox(c).lastCursor
    THEN [c EXCEPT !.pc = "updateMailboxCursor"]
    ELSE pollMailboxReturns(c)

\* the cursor candidate taken from the first message of the page only
messageProcessedKeepsFirst(c) ==
    LET d == [c EXCEPT !.emailsProcessed = c.emailsProcessed + 1,
                       !.newCursor = IF c.msgi = 1 THEN receivedDateTime[Message(c)]
                                     ELSE c.newCursor,
                       !.attachments = <<>>, !.ai = 0,
                       !.exists = None, !.upConnection = None,
                       !.uploadResult = None]
    IN IF c.msgi < Len(c.messages)
       THEN [d EXCEPT !.pc = "fetchAttachments", !.msgi = c.msgi + 1]
       ELSE afterMessages(d)

\* processMessageAttachments has returned for the current message
messageProcessed(c) ==
    LET d == [c EXCEPT !.emailsProcessed = c.emailsProcessed + 1,
                       !.newCursor = receivedDateTime[Message(c)],
                       !.attachments = <<>>, !.ai = 0,
                       !.exists = None, !.upConnection = None,
                       !.uploadResult = None]
    IN IF c.msgi < Len(c.messages)
       THEN [d EXCEPT !.pc = "fetchAttachments", !.msgi = c.msgi + 1]
       ELSE afterMessages(d)

\* the attachment's try left by way of the loop over the attachments
nextAttachmentEndsMessage(c) == messageProcessed(c)

\* the for loop over the attachments moves on (continue, or the catch of
\* the attachment's try)
nextAttachment(c) ==
    IF c.ai < Len(c.attachments)
    THEN [c EXCEPT !.pc = "usageEventExists", !.ai = c.ai + 1,
                   !.exists = None, !.upConnection = None, !.uploadResult = None]
    ELSE messageProcessed(c)

\* the invocation in state c goes to state d, or returns (d is idle)
Step(c, d) ==
    /\ cycles' = (cycles (-) SetToBag({c}))
                    (+) (IF d.pc = "idle" THEN EmptyBag ELSE SetToBag({d}))
    /\ lastOp' = "other"

\* ------------------------------------------------------- mailboxService.js
\* getAllActiveMailboxes: the active mailboxes of the active tenants
\* the loop over tenantsSnapshot.docs: the active mailboxes of each tenant
\* are pushed in the order of the tenants
RECURSIVE activeMailboxesOf(_)
activeMailboxesOf(tenantDocs) ==
    IF tenantDocs = <<>> THEN <<>>
    ELSE LET tenantId == Head(tenantDocs)
             collection == IF tenantId \in DOMAIN mailboxes
                           THEN mailboxes[tenantId] ELSE <<>>
             active == SelectSeq(docs(collection),
                           LAMBDA mb : collection[mb].status = "active")
         IN [i \in 1..Len(active) |->
               [tenantId |-> tenantId,
                mailboxId |-> active[i],
                connectionId |-> collection[active[i]].connectionId,
                lastCursor |-> collection[active[i]].lastCursor]]
            \o activeMailboxesOf(Tail(tenantDocs))

getAllActiveMailboxes ==
    activeMailboxesOf(SelectSeq(docs(tenants),
                          LAMBDA t : tenants[t].status = "active"))

\* updateMailboxCursor
updateMailboxCursor(t, mb, cursor) ==
    mailboxes' = [mailboxes EXCEPT ![t][mb].lastCursor = cursor]

\* -------------------------------------------------- usageEventService.js
\* the existence check that never finds an event
usageEventExistsNever(t, sourceId) == FALSE

\* the existence check over the usageEvents of every tenant
usageEventExistsAnyTenant(t, sourceId) ==
    \E other \in DOMAIN usageEvents : usageEvents[other][sourceId] > 0

usageEventExists(t, sourceId) == usageEvents[t][sourceId] > 0

createUsageEvent(t, sourceId) ==
    usageEvents' = [usageEvents EXCEPT ![t][sourceId] = @ + 1]

\* ------------------------------------------------- msConnectionService.js
\* getMsConnection: the document, or None when it does not exist
getMsConnection(t, c) ==
    IF c \in DOMAIN msConnections[t] THEN Some(msConnections[t][c]) ELSE None

\* getActiveMsConnection: where status == 'active', limit 1
getActiveMsConnection(t) ==
    LET act == SelectSeq(docs(msConnections[t]),
                   LAMBDA c : msConnections[t][c].status = "active")
    IN IF act = <<>> THEN None ELSE Some([id |-> act[1], tokenRef |-> msConnections[t][act[1]].tokenRef])

\* the test without the comparison of the status
connectionUsableAnyStatus(connection) == connection # None

\* the test of pollMailbox on the connection it read
connectionUsable(connection) ==
    connection # None /\ connection[1].status = "active"

\* ---------------------------------------------------- the remote mailbox
\* hasAttachments eq true [and receivedDateTime gt cursor]
Matching(c, lastCursor) ==
    {m \in inbox[c] : Len(attachmentsOf[m]) > 0
                      /\ (lastCursor = 0 \/ receivedDateTime[m] > lastCursor)}

\* orderby receivedDateTime ASC, top(PageSize): the pages the remote mailbox
\* may answer with (the order among equal timestamps is its choice)
Pages(M) ==
    LET n == Min(PageSize, Cardinality(M))
    IN {s \in [1..n -> M] :
          /\ \A i, j \in 1..n : i < j =>
                 s[i] # s[j] /\ receivedDateTime[s[i]] <= receivedDateTime[s[j]]
          /\ \A m \in M \ Range(s) : \A i \in 1..n :
                 receivedDateTime[s[i]] <= receivedDateTime[m]}

\* ---------------------------------------------------------- pollAllMailboxes
\* const activeMailboxes = await getAllActiveMailboxes()
\* the rejection leaves pollAllMailboxes: nothing handles it in the timer
\* callback, the process ends and with it its timers
enumerationFailedUncaught(c) ==
    /\ timers' = {}
    /\ UNCHANGED pollingInterval
    /\ Step(c, IdleCycle)

\* getAllActiveMailboxes throws: the catch of pollAllMailboxes logs the
\* error and the invocation returns
enumerationFailed(c) ==
    /\ UNCHANGED lifecycle
    /\ Step(c, IdleCycle)

GetAllActiveMailboxes(c) ==
    /\ c.pc = "getAllActiveMailboxes"
    /\ UNCHANGED store
    /\ \/ /\ UNCHANGED lifecycle
          /\ LET list == getAllActiveMailboxes
             IN Step(c, nextMailbox([c EXCEPT !.activeMailboxes = list]))
       \/ enumerationFailed(c)

\* ------------------------------------------------------------- pollMailbox
\* const connection = await getMsConnection(tenantId, connectionId)
GetMsConnection(c) ==
    /\ c.pc = "getMsConnection"
    /\ UNCHANGED <<store, lifecycle>>
    /\ \/ LET connection == getMsConnection(Mailbox(c).tenantId, Mailbox(c).connectionId)
          IN IF connectionUsable(connection)
             THEN Step(c, [c EXCEPT !.pc = "retrieveTokenSecurely",
                                    !.tokenRef = Some(connection[1].tokenRef)])
             ELSE Step(c, pollMailboxReturns(c))
       \/ Step(c, pollMailboxThrows(c))

\* const tokens = await retrieveTokenSecurely(connection.tokenRef), and the
\* expiry test
\* the test that lets a token at the edge of the buffer pass
needsRefreshStrict(now, expiresOn) == now > expiresOn - BufferTime

needsRefresh(now, expiresOn) == now >= expiresOn - BufferTime

RetrieveTokenSecurely(c) ==
    /\ c.pc = "retrieveTokenSecurely"
    /\ UNCHANGED <<store, lifecycle>>
    /\ \/ /\ validRef(c.tokenRef[1])
          /\ LET tokens == decryptToken(c.tokenRef[1])
                 now == clock
             IN IF needsRefresh(now, tokens.expiresOn)
                THEN Step(c, [c EXCEPT !.pc = "refreshAccessToken",
                                       !.tokenRef = None,
                                       !.tokens = Some(tokens)])
                ELSE Step(c, [c EXCEPT !.pc = "fetchMessages",
                                       !.tokenRef = None,
                                       !.accessToken = Some(tokens.accessToken)])
       \/ \* the reference has not the format, or the decryption fails
          Step(c, pollMailboxThrows(c))

\* const newTokens = await refreshAccessToken(tokens.refreshToken), then
\* storeTokenSecurely of the new bundle
\* the bundle stored without the previous refresh token as fallback
newBundleNoFallback(newTokens, tokens) ==
    [accessToken |-> newTokens.accessToken,
     refreshToken |-> newTokens.refreshToken,
     expiresOn |-> newTokens.expiresOn]

\* the bundle handed to storeTokenSecurely after a refresh
newBundle(newTokens, tokens) ==
    [accessToken |-> newTokens.accessToken,
     refreshToken |-> IF newTokens.refreshToken # "none"
                      THEN newTokens.refreshToken
                      ELSE tokens.refreshToken,
     expiresOn |-> newTokens.expiresOn]

\* the failed exchange swallowed: the poll goes on with the stored token
refreshFailedUsesStored(c) ==
    [c EXCEPT !.pc = "fetchMessages", !.accessToken = Some(c.tokens[1].accessToken),
              !.tokens = None]

\* refreshAccessToken (or storeTokenSecurely) throws: the catch of
\* pollMailbox rethrows
refreshFailed(c) == pollMailboxThrows(c)

RefreshAccessToken(c) ==
    /\ c.pc = "refreshAccessToken"
    /\ UNCHANGED <<store, lifecycle>>
    /\ \/ \E newTokens \in RefreshResponses :
            LET newTokenRef == encryptToken(newBundle(newTokens, c.tokens[1]))
            IN Step(c, [c EXCEPT !.pc = "updateMsConnection",
                                 !.newTokens = Some(newTokens),
                                 !.newTokenRef = Some(newTokenRef)])
       \/ Step(c, refreshFailed(c))

\* await updateMsConnection(tenantId, connectionId, { tokenRef: newTokenRef })
UpdateMsConnection(c) ==
    /\ c.pc = "updateMsConnection"
    /\ UNCHANGED <<tenants, mailboxes, usageEvents, inbox, clock,
                   files, outside, lifecycle>>
    /\ \/ /\ msConnections' =
               [msConnections EXCEPT
                  ![Mailbox(c).tenantId][Mailbox(c).connectionId].tokenRef = c.newTokenRef[1]]
          /\ Step(c, [c EXCEPT !.pc = "fetchMessages",
                               !.accessToken = Some(c.newTokens[1].accessToken),
                               !.tokens = None, !.newTokens = None,
                               !.newTokenRef = None])
       \/ /\ UNCHANGED msConnections
          /\ Step(c, pollMailboxThrows(c))

\* const response = await client.api('/me/messages')...top(50).get()
FetchMessages(c) ==
    /\ c.pc = "fetchMessages"
    /\ UNCHANGED <<store, lifecycle>>
    /\ \/ \E messages \in Pages(Matching(Mailbox(c).connectionId, Mailbox(c).lastCursor)) :
            LET d == [c EXCEPT !.messages = messages,
                               !.newCursor = Mailbox(c).lastCursor]
            IN IF messages = <<>>
               THEN Step(c, afterMessages(d))
               ELSE Step(c, [d EXCEPT !.pc = "fetchAttachments", !.msgi = 1])
       \/ Step(c, pollMailboxThrows(c))

\* await updateMailboxCursor(tenantId, mailboxId, newCursor)
UpdateMailboxCursor(c) ==
    /\ c.pc = "updateMailboxCursor"
    /\ UNCHANGED <<tenants, msConnections, usageEvents, inbox, clock,
                   files, outside, lifecycle>>
    /\ \/ /\ updateMailboxCursor(Mailbox(c).tenantId, Mailbox(c).mailboxId, c.newCursor)
          /\ Step(c, pollMailboxReturns(c))
       \/ /\ UNCHANGED mailboxes
          /\ Step(c, pollMailboxThrows(c))

\* ------------------------------------------------ processMessageAttachments
\* const attachmentsResponse = await client.api(.../attachments).get()
FetchAttachments(c) ==
    /\ c.pc = "fetchAttachments"
    /\ UNCHANGED <<store, lifecycle>>
    /\ \/ LET attachments == attachmentsOf[Message(c)]
          IN IF attachments = <<>>
             THEN Step(c, messageProcessed(c))
             ELSE Step(c, [c EXCEPT !.pc = "usageEventExists",
                                    !.attachments = attachments, !.ai = 1])
       \/ \* the outer catch returns { attachmentsProcessed }
          Step(c, messageProcessed(c))

\* const exists = await usageEventExists(tenantId, sourceId)
existsChecked(c, exists) ==
    IF exists
    THEN nextAttachment(c)
    ELSE [c EXCEPT !.pc = "getActiveMsConnection", !.exists = Some(FALSE)]

UsageEventExists(c) ==
    /\ c.pc = "usageEventExists"
    /\ UNCHANGED <<store, lifecycle>>
    /\ \/ Step(c, existsChecked(c,
                    usageEventExists(Mailbox(c).tenantId,
                                     SourceId(Message(c), Attachment(c)))))
       \/ Step(c, nextAttachment(c))

\* ------------------------------------------------------------ sanitizeFileName
\* strings are sequences of characters, indexed from 0 as in the source
Max(a, b) == IF a >= b THEN a ELSE b

\* String.prototype.substring(start, end): both indexes are brought into
\* 0..length, and swapped when start is the larger
substring(str, start, end) ==
    LET a == Max(0, Min(start, Len(str)))
        b == Max(0, Min(end, Len(str)))
    IN SubSeq(str, Min(a, b) + 1, Max(a, b))

\* String.prototype.lastIndexOf(ch): -1 when ch does not occur
lastIndexOf(str, ch) ==
    IF \E i \in 1..Len(str) : str[i] = ch
    THEN (CHOOSE i \in 1..Len(str) :
             str[i] = ch /\ \A j \in (i + 1)..Len(str) : str[j] # ch) - 1
    ELSE -1

\* the characters of the class ["*:<>?\/\\|] that occur in the modelled names
InvalidCharacters == {"/", ":"}

\* fileName.replace(/["*:<>?\/\\|]/g, '_')
replaceInvalid(fileName) ==
    [i \in 1..Len(fileName) |->
        IF fileName[i] \in InvalidCharacters THEN "_" ELSE fileName[i]]

sanitizeFileName(fileName) ==
    LET sanitized == replaceInvalid(fileName)
    IN IF Len(sanitized) > 128
       THEN LET extension == substring(sanitized, lastIndexOf(sanitized, "."),
                                       Len(sanitized))
                nameWithoutExt == substring(sanitized, 0, lastIndexOf(sanitized, "."))
            IN substring(nameWithoutExt, 0, 128 - Len(extension)) \o extension
       ELSE sanitized

\* the file names of the calls: of a length about the limit or far from
\* it, with a '.' at up to two places or none, and with an invalid
\* character or none

\* ------------------------------------------------ uploadAttachmentToSharePoint
\* date.getFullYear().toString() and the month padded to two digits: the
\* instants of the model all lie in January 2024
yearOf(dateTime) == "2024"
monthOf(dateTime) == "01"

\* `/Shared Documents/MailArchive/${year}/${month}/${fileName}`, as the
\* segments of the path and the characters of the file name
uploadPath(m, a) ==
    <<"Shared Documents", "MailArchive", yearOf(receivedDateTime[m]),
      monthOf(receivedDateTime[m]), sanitizeFileName(nameOf[a])>>

\* the drive after a write to path with conflictBehavior replace: the item
\* at path holds the content of sourceId
replaced(path, sourceId) ==
    {f \in files : f.path # path} \cup {[path |-> path, copy |-> 0, sourceId |-> sourceId]}

\* the copies of path on the drive, and the drive after an upload session
\* with conflictBehavior rename has completed: a new item, under the name
\* if it is free and under the name with the next number otherwise
copiesOf(path) == Cardinality({f \in files : f.path = path})
renamed(path, sourceId) ==
    files \cup {[path |-> path, copy |-> copiesOf(path), sourceId |-> sourceId]}

\* const connection = await getActiveMsConnection(tenantId)
GetActiveMsConnection(c) ==
    /\ c.pc = "getActiveMsConnection"
    /\ UNCHANGED <<store, lifecycle>>
    /\ \/ LET connection == getActiveMsConnection(Mailbox(c).tenantId)
          IN IF connection = None
             THEN Step(c, nextAttachment(c))
             ELSE Step(c, [c EXCEPT !.pc = "uploadToSharePoint",
                                    !.upConnection = connection])
       \/ Step(c, nextAttachment(c))

\* the failure of the upload swallowed before the usage event is written
uploadFailedThenRecords(c) == [c EXCEPT !.pc = "createUsageEvent", !.upConnection = None]

\* the upload did not return: the catch of the attachment's try
uploadFailed(c) ==
    nextAttachment([c EXCEPT !.offset = 0, !.sent = <<>>, !.response = None])

\* fileContent.length
FileSize(c) == sizeOf[Attachment(c)]

\* the test of uploadToSharePoint with < in place of <=
useSimpleUploadBelow(fileSize) == fileSize < maxSimpleUploadSize

\* if (fileSize <= maxSimpleUploadSize)
useSimpleUpload(fileSize) == fileSize <= maxSimpleUploadSize

\* retrieveTokenSecurely(connection.tokenRef) and ensureFolderStructure with
\* that token, then uploadToSharePoint up to its first request
UploadToSharePoint(c) ==
    /\ c.pc = "uploadToSharePoint"
    /\ UNCHANGED <<store, lifecycle>>
    /\ \/ /\ validRef(c.upConnection[1].tokenRef)
          /\ Step(c, [c EXCEPT !.pc = IF useSimpleUpload(FileSize(c))
                                      THEN "putContent"
                                      ELSE "createUploadSession",
                               !.upConnection = None])
       \/ Step(c, uploadFailed(c))

\* uploadToSharePoint and uploadLargeFile return the uploaded file, and
\* uploadAttachmentToSharePoint the path
uploadReturns(c) ==
    [c EXCEPT !.pc = "createUsageEvent", !.offset = 0, !.sent = <<>>,
              !.response = None,
              !.uploadResult = Some(uploadPath(Message(c), Attachment(c)))]

\* await client.api(uploadPath).header(...).put(fileContent)
PutContent(c) ==
    /\ c.pc = "putContent"
    /\ UNCHANGED <<tenants, msConnections, mailboxes, usageEvents, inbox, clock,
                   outside, lifecycle>>
    /\ \/ /\ files' = replaced(uploadPath(Message(c), Attachment(c)), SourceIdOf(c))
          /\ Step(c, uploadReturns(c))
       \/ /\ UNCHANGED files
          /\ Step(c, uploadFailed(c))

\* ------------------------------------------------------------ uploadLargeFile
\* const uploadSession = await client.api(uploadSessionPath).post(...)
CreateUploadSession(c) ==
    /\ c.pc = "createUploadSession"
    /\ UNCHANGED <<store, lifecycle>>
    /\ \/ Step(c, [c EXCEPT !.pc = "putChunk", !.offset = 0, !.sent = <<>>])
       \/ Step(c, uploadFailed(c))

\* the status codes an upload session answers a chunk with
ChunkStatuses == {201, 202, 500}
\* response.ok
ok(status) == status \in 200..299

\* the Content-Range of a whole chunk at offset, the end of the buffer ignored
contentRangeWholeChunk(offset, fileSize) ==
    [from |-> offset, to |-> offset + chunkSize - 1, total |-> fileSize]

\* the chunk of the buffer at offset and its Content-Range
contentRange(offset, fileSize) ==
    LET contentLength == Min(chunkSize, fileSize - offset)
    IN [from |-> offset, to |-> offset + contentLength - 1, total |-> fileSize]

\* the failed chunk passed over: the loop goes on with the next chunk
chunkFailedIgnored(c) == [c EXCEPT !.offset = c.offset + chunkSize]

\* throw new Error(`Upload chunk failed: ...`)
chunkFailed(c) == uploadFailed(c)

\* one turn of the while loop: const response = await fetch(uploadUrl, PUT)
PutChunk(c) ==
    /\ c.pc = "putChunk"
    /\ c.offset < FileSize(c)
    /\ UNCHANGED <<tenants, msConnections, mailboxes, usageEvents, inbox, clock,
                   outside, lifecycle>>
    /\ \/ \E status \in ChunkStatuses :
            LET d == [c EXCEPT !.sent = Append(c.sent, contentRange(c.offset, FileSize(c))),
                               !.response = Some(status)]
                path == uploadPath(Message(c), Attachment(c))
            IN IF ~ok(status) /\ status # 202
               THEN UNCHANGED files /\ Step(c, chunkFailed(d))
               ELSE IF c.offset + chunkSize >= FileSize(c)
                    THEN \* the session has the whole content: 201 with the item
                         /\ IF ok(status)
                            THEN /\ copiesOf(path) <= MaxRenames
                                 /\ files' = renamed(path, SourceIdOf(c))
                            ELSE UNCHANGED files
                         /\ Step(c, [d EXCEPT !.pc = "responseJson",
                                              !.offset = c.offset + chunkSize])
                    ELSE UNCHANGED files
                         /\ Step(c, [d EXCEPT !.offset = c.offset + chunkSize])
       \/ \* fetch rejects
          UNCHANGED files /\ Step(c, uploadFailed(c))

\* const uploadedFile = await response.json(); return uploadedFile
ResponseJson(c) ==
    /\ c.pc = "responseJson"
    /\ UNCHANGED <<store, lifecycle>>
    /\ \/ Step(c, uploadReturns(c))
       \/ Step(c, uploadFailed(c))

\* await createUsageEvent(tenantId, { ..., sourceId, metadata })
CreateUsageEvent(c) ==
    /\ c.pc = "createUsageEvent"
    /\ UNCHANGED <<tenants, msConnections, mailboxes, inbox, clock,
                   files, outside, lifecycle>>
    /\ \/ /\ createUsageEvent(Mailbox(c).tenantId, SourceId(Message(c), Attachment(c)))
          /\ Step(c, nextAttachment(
                       [c EXCEPT !.attachmentsProcessed = c.attachmentsProcessed + 1]))
       \/ /\ UNCHANGED usageEvents
          /\ Step(c, nextAttachment(c))

\* ----------------------------------------------------------- secretManager.js
\* The vault in detail.  The values of the fields of a token object: a
\* string, a Date (of an instant t), or undefined; the ISO string of an
\* instant is a string that carries it.
Str(str) == [type |-> "string", s |-> str, t |-> 0]
DateOf(t) == [type |-> "Date", s |-> "", t |-> t]
ISOString(t) == [type |-> "string", s |-> "ISO", t |-> t]
Undefined == [type |-> "undefined", s |-> "", t |-> 0]

\* object[key], undefined when the object has no such property
Get(object, key) == IF key \in DOMAIN object THEN object[key] ELSE Undefined

\* the serialization of a Date as the number of its instant
toJSONNumber(value) ==
    IF value.type = "Date" THEN [type |-> "number", s |-> "", t |-> value.t] ELSE value

\* what JSON.stringify writes for a value: Date.prototype.toJSON gives the
\* ISO string
toJSON(value) == IF value.type = "Date" THEN ISOString(value.t) ELSE value

\* JSON.stringify(object): the properties that are undefined are left out.
\* The text is represented by the object that JSON.parse makes of it.
JSONstringify(object) ==
    [key \in {k \in DOMAIN object : object[k].type # "undefined"} |->
        toJSON(object[key])]
JSONparse(text) == text

\* the digits that toString('hex') writes, and the other spellings that
\* Buffer.from(string, 'hex') reads
HexDigits == <<"0", "1", "2", "3", "4", "5", "6", "7", "8", "9",
               "a", "b", "c", "d", "e", "f">>
UpperHexDigits == <<"0", "1", "2", "3", "4", "5", "6", "7", "8", "9",
                    "A", "B", "C", "D", "E", "F">>

\* buffer.toString('hex')
toHex(bytes) ==
    [i \in 1..(2 * Len(bytes)) |->
        IF i % 2 = 1 THEN HexDigits[(bytes[(i + 1) \div 2] \div 16) + 1]
        ELSE HexDigits[(bytes[i \div 2] % 16) + 1]]

\* the value of a hexadecimal digit of either case, -1 for another character
hexValue(ch) ==
    IF \E v \in 1..16 : HexDigits[v] = ch
    THEN (CHOOSE v \in 1..16 : HexDigits[v] = ch) - 1
    ELSE IF \E v \in 1..16 : UpperHexDigits[v] = ch
         THEN (CHOOSE v \in 1..16 : UpperHexDigits[v] = ch) - 1
         ELSE -1

\* Buffer.from(string, 'hex'): the bytes of the pairs of digits up to the
\* first pair that is not two hexadecimal digits; a last single character
\* is dropped
fromHex(str) ==
    LET pairs == Len(str) \div 2
        good(k) == hexValue(str[2 * k - 1]) >= 0 /\ hexValue(str[2 * k]) >= 0
        n == IF \A k \in 1..pairs : good(k) THEN pairs
             ELSE (CHOOSE k \in 1..pairs : ~good(k) /\ \A j \in 1..(k - 1) : good(j)) - 1
    IN [k \in 1..n |-> 16 * hexValue(str[2 * k - 1]) + hexValue(str[2 * k])]

\* the values of crypto.randomBytes(16)
Ivs == { [k \in 1..16 |-> 160 + k], [k \in 1..16 |-> 16 * k - 7] }

\* the token objects handed to encryptToken: with a Date or an ISO string as
\* expiry, with or without a refresh token
TokenObjects ==
    { [accessToken |-> Str(at), refreshToken |-> rt, expiresOn |-> exp] :
        at \in {"at1", "at2"},
        rt \in {Str("rt1"), Undefined},
        exp \in {DateOf(10), DateOf(70), ISOString(10)} }
UserIdsOfVault == {"cA"}
StoredAt == {0, 5}
\* the objects that storeTokenSecurely hands to encryptToken
StoredObjects ==
    { [userId |-> Str(userId), accessToken |-> tokens.accessToken,
       refreshToken |-> tokens.refreshToken, expiresOn |-> tokens.expiresOn,
       storedAt |-> ISOString(now)] :
        userId \in UserIdsOfVault, tokens \in TokenObjects, now \in StoredAt }
\* the texts that the key has encrypted
TokenStrings == {JSONstringify(object) : object \in TokenObjects \cup StoredObjects}

\* cipher.update(tokenString) + cipher.final() under aes-256-gcm with the
\* key and iv: the bytes of the ciphertext, which depend on the iv and the
\* text; the model scales them to four bytes
sumOf(text) ==
    LET at == IF text.accessToken.s = "at1" THEN 1 ELSE 2
        rt == IF "refreshToken" \in DOMAIN text THEN 1 ELSE 0
        id == IF "userId" \in DOMAIN text THEN 1 + text.storedAt.t ELSE 0
        iso == text.expiresOn.t
    IN <<at, rt, id, iso>>
cipherBytes(iv, tokenString) ==
    [k \in 1..4 |-> (iv[k] + sumOf(tokenString)[k]) % 256]

\* cipher.getAuthTag(): the 16 bytes of the tag of iv and ciphertext
getAuthTag(iv, bytes) ==
    [k \in 1..16 |-> (iv[k] + 7 * bytes[((k - 1) % 4) + 1] + 13 * k) % 256]

\* encryptToken(tokenData), with the iv that crypto.randomBytes gave.  The
\* reference is the prefix and the base64 of the JSON of
\* { iv, authTag, encrypted }, represented by its fields.
encryptTokenWith(tokenData, iv) ==
    LET tokenString == JSONstringify(tokenData)
        encrypted == cipherBytes(iv, tokenString)
        authTag == getAuthTag(iv, encrypted)
    IN [prefix |-> "secret://", json |-> TRUE,
        iv |-> toHex(iv), authTag |-> toHex(authTag), encrypted |-> toHex(encrypted)]

\* the lengths of a tag that decipher.setAuthTag takes when the decipher
\* was made without authTagLength
AuthTagLengths == {4, 8, 12, 13, 14, 15, 16}

\* decipher.final() does not throw: the key has made this ciphertext with
\* this iv, and the tag given is the tag of the two, or a valid-length
\* beginning of it
authentic(iv, authTag, bytes) ==
    /\ iv \in Ivs
    /\ \E tokenString \in TokenStrings : cipherBytes(iv, tokenString) = bytes
    /\ Len(authTag) \in AuthTagLengths
    /\ authTag = SubSeq(getAuthTag(iv, bytes), 1, Len(authTag))

\* decryptTokenRef(tokenRef): [ok |-> TRUE, data] when decryptToken returns,
\* [ok |-> FALSE, data |-> <<>>] when it throws
decryptTokenRef(tokenRef) ==
    IF tokenRef.prefix # "secret://" \/ ~tokenRef.json
    THEN [ok |-> FALSE, data |-> <<>>]
    ELSE LET iv == fromHex(tokenRef.iv)
             authTag == fromHex(tokenRef.authTag)
             encrypted == fromHex(tokenRef.encrypted)
         IN IF authentic(iv, authTag, encrypted)
            THEN [ok |-> TRUE,
                  data |-> JSONparse(CHOOSE tokenString \in TokenStrings :
                                        cipherBytes(iv, tokenString) = encrypted)]
            ELSE [ok |-> FALSE, data |-> <<>>]

\* storeTokenSecurely(userId, tokens), at the time now and with the iv
storeTokenSecurely(userId, tokens, now, iv) ==
    encryptTokenWith([userId |-> Str(userId),
                      accessToken |-> tokens.accessToken,
                      refreshToken |-> tokens.refreshToken,
                      expiresOn |-> tokens.expiresOn,
                      storedAt |-> ISOString(now)], iv)

\* retrieveTokenSecurely(tokenRef)
retrieveTokenSecurely(tokenRef) ==
    LET tokenData == decryptTokenRef(tokenRef)
    IN IF tokenData.ok
       THEN [ok |-> TRUE,
             data |-> [accessToken |-> Get(tokenData.data, "accessToken"),
                       refreshToken |-> Get(tokenData.data, "refreshToken"),
                       expiresOn |-> Get(tokenData.data, "expiresOn")]]
       ELSE tokenData

\* a call of encryptToken(tokenData) and of decryptToken on what it returned
EncryptThenDecrypt ==
    /\ arg # None /\ result = None
    /\ arg[1].call = "encryptToken"
    /\ result' = Some(decryptTokenRef(encryptTokenWith(arg[1].tokenData, arg[1].iv)))
    /\ lastOp' = "other"
    /\ UNCHANGED <<tenants, msConnections, mailboxes, usageEvents, inbox, clock,
                   files, oauth, folders, users, ensure, arg, lifecycle, cycles>>

\* a call of storeTokenSecurely(userId, tokens) and of retrieveTokenSecurely
\* on the reference it returned
StoreThenRetrieve ==
    /\ arg # None /\ result = None
    /\ arg[1].call = "storeTokenSecurely"
    /\ result' = Some(retrieveTokenSecurely(
                     storeTokenSecurely(arg[1].userId, arg[1].tokens,
                                        arg[1].now, arg[1].iv)))
    /\ lastOp' = "other"
    /\ UNCHANGED <<tenants, msConnections, mailboxes, usageEvents, inbox, clock,
                   files, oauth, folders, users, ensure, arg, lifecycle, cycles>>

\* a call of decryptToken(tokenRef) on a reference from anywhere
DecryptToken ==
    /\ arg # None /\ result = None
    /\ arg[1].call = "decryptToken"
    /\ result' = Some(decryptTokenRef(arg[1].tokenRef))
    /\ lastOp' = "other"
    /\ UNCHANGED <<tenants, msConnections, mailboxes, usageEvents, inbox, clock,
                   files, oauth, folders, users, ensure, arg, lifecycle, cycles>>

\* the references that encryptToken produces
Produced ==
    { encryptTokenWith(tokenData, iv) :
        tokenData \in TokenObjects \cup StoredObjects, iv \in Ivs }

\* the characters put in the place of a digit, and the places
Replacements == {"0", "5", "a", "A", "c", "C", "F", "z"}
replaceAt(str, place, ch) == [i \in 1..Len(str) |-> IF i = place THEN ch ELSE str[i]]

\* references made of a produced one by a change of one part: another
\* prefix, a body that is no JSON, one character of the nonce, of the tag or
\* of the ciphertext replaced, a part cut short or lengthened
Altered(tokenRef) ==
    {[tokenRef EXCEPT !.prefix = prefix] : prefix \in {"", "secret:/", "Secret://"}}
    \cup {[tokenRef EXCEPT !.json = FALSE]}
    \cup {[tokenRef EXCEPT !.iv = replaceAt(@, place, ch)] :
              place \in 1..Len(tokenRef.iv), ch \in Replacements}
    \cup {[tokenRef EXCEPT !.authTag = replaceAt(@, place, ch)] :
              place \in 1..Len(tokenRef.authTag), ch \in Replacements}
    \cup {[tokenRef EXCEPT !.encrypted = replaceAt(@, place, ch)] :
              place \in 1..Len(tokenRef.encrypted), ch \in Replacements}
    \cup {[tokenRef EXCEPT !.iv = SubSeq(@, 1, n)] : n \in {0, 8, 30, 31}}
    \cup {[tokenRef EXCEPT !.authTag = SubSeq(@, 1, n)] : n \in {0, 8, 16, 24, 30, 31}}
    \cup {[tokenRef EXCEPT !.encrypted = SubSeq(@, 1, n)] : n \in {0, 6, 7}}
    \cup {[tokenRef EXCEPT !.iv = @ \o tail] : tail \in {<<"0">>, <<"0", "0">>, <<"z">>}}
    \cup {[tokenRef EXCEPT !.authTag = @ \o tail] : tail \in {<<"0">>, <<"0", "0">>, <<"z">>}}
    \cup {[tokenRef EXCEPT !.encrypted = @ \o tail] : tail \in {<<"0">>, <<"0", "0">>, <<"z">>}}

\* the produced references whose alterations are tried
AlteredFrom ==
    { encryptTokenWith(tokenData, iv) :
        tokenData \in { o \in TokenObjects : o.accessToken.s = "at1" }, iv \in Ivs }
TokenRefs == Produced \cup UNION {Altered(tokenRef) : tokenRef \in AlteredFrom}

\* calls of sanitizeFileName on its own
NameLengths == {3, 127, 128, 129, 130, 200}
FileNames ==
    { [i \in 1..n |-> IF i \in dots THEN "." ELSE IF i = bad THEN "/" ELSE "x"] :
        n \in NameLengths,
        dots \in {{}, {1}, {2}, {1, 60}, {60}, {196}, {2, 126}, {127}, {129}},
        bad \in {0, 3} }

\* a call of sanitizeFileName(fileName)
SanitizeFileName ==
    /\ arg # None /\ result = None
    /\ result' = Some(sanitizeFileName(arg[1]))
    /\ lastOp' = "other"
    /\ UNCHANGED <<tenants, msConnections, mailboxes, usageEvents, inbox, clock,
                   files, oauth, folders, users, ensure, arg, lifecycle, cycles>>

\* ------------------------------------------------------ ensureFolderStructure
\* the three calls of ensureFolder(client, parentPath, folderName), in the
\* order of the source
Segments(year, month) ==
    << [parentPath |-> <<"Shared Documents">>, folderName |-> "MailArchive"],
       [parentPath |-> <<"Shared Documents", "MailArchive">>, folderName |-> year],
       [parentPath |-> <<"Shared Documents", "MailArchive", year>>, folderName |-> month] >>

\* const folderPath = `${parentPath}/${folderName}`
folderPath(segment) == Append(segment.parentPath, segment.folderName)

\* the lookup that answers 404 for every path
folderExistsNever(path) == FALSE

\* client.api(`/me/drive/root:${folderPath}`).get() answers with the folder,
\* or with 404 when there is none
folderExists(path) == path \in folders

\* the address the create request goes to: the children of the drive root
\* for a folder of /Shared Documents, of the parent path otherwise
createRequest(parentPath) ==
    IF parentPath = <<"Shared Documents">> THEN <<>> ELSE parentPath

\* the folder that a post of { name, conflictBehavior: 'rename' } makes
\* under parent: of that name, or of a name the drive chooses when the name
\* is taken
created(parent, name) ==
    IF Append(parent, name) \in folders
    THEN Append(parent, name \o " 1")
    ELSE Append(parent, name)

\* the years and months of the calls
Years == {"2024"}
Months == {"01", "02"}

\* ensureFolderStructure(client, year, month) is called
CallEnsureFolderStructure(year, month) ==
    /\ ensure.pc = "idle"
    /\ ensure' = [pc |-> "get", seg |-> 1, year |-> year, month |-> month,
                  before |-> folders, created |-> {}]
    /\ result' = None
    /\ lastOp' = "other"
    /\ UNCHANGED <<tenants, msConnections, mailboxes, usageEvents, inbox, clock,
                   files, oauth, folders, users, arg, lifecycle, cycles>>

\* ensureFolderStructure returns (outcome "returned") or throws
ensureEnds(outcome) ==
    /\ ensure' = NoCall
    /\ result' = Some([year |-> ensure.year, month |-> ensure.month,
                       outcome |-> outcome,
                       before |-> ensure.before, created |-> ensure.created])

\* ensureFolder returns: the next segment, or the end of the call
folderEnsured(e) ==
    IF e.seg < 3
    THEN /\ ensure' = [e EXCEPT !.pc = "get", !.seg = e.seg + 1]
         /\ UNCHANGED result
    ELSE /\ ensure' = NoCall
         /\ result' = Some([year |-> e.year, month |-> e.month,
                            outcome |-> "returned",
                            before |-> e.before, created |-> e.created])

\* await client.api(`/me/drive/root:${folderPath}`).get() of ensureFolder
EnsureFolderGet ==
    /\ ensure.pc = "get"
    /\ lastOp' = "other"
    /\ UNCHANGED <<tenants, msConnections, mailboxes, usageEvents, inbox, clock,
                   files, oauth, folders, users, arg, lifecycle, cycles>>
    /\ LET segment == Segments(ensure.year, ensure.month)[ensure.seg]
       IN \/ IF folderExists(folderPath(segment))
             THEN folderEnsured(ensure)
             ELSE /\ ensure' = [ensure EXCEPT !.pc = "post"]
                  /\ UNCHANGED result
          \/ \* an error other than 404 is thrown on
             ensureEnds("lookup failed")

\* await createRequest.post({ name, folder, conflictBehavior }) of ensureFolder
EnsureFolderPost ==
    /\ ensure.pc = "post"
    /\ lastOp' = "other"
    /\ UNCHANGED <<tenants, msConnections, mailboxes, usageEvents, inbox, clock,
                   files, oauth, users, arg, lifecycle, cycles>>
    /\ LET segment == Segments(ensure.year, ensure.month)[ensure.seg]
           parent == createRequest(segment.parentPath)
           new == created(parent, segment.folderName)
       IN \/ /\ parent = <<>> \/ parent \in folders
             /\ folders' = folders \cup {new}
             /\ folderEnsured([ensure EXCEPT !.created = @ \cup {new}])
          \/ \* the drive has no item at the parent path, or the request fails
             /\ UNCHANGED folders
             /\ ensureEnds("create failed")

\* ------------------------------------------------------------- connect.js
\* POST /microsoft/revoke/:tenantId/:connectionId
Revoke(t, c) ==
    /\ getMsConnection(t, c) # None
    /\ msConnections' = [msConnections EXCEPT ![t][c].status = "revoked"]
    /\ lastOp' = "other"
    /\ UNCHANGED <<tenants, mailboxes, usageEvents, inbox, clock,
                   files, outside, lifecycle, cycles>>

\* the state values of generateState: each holds the ids and a fresh nonce
StateValues == {"s1", "s2"}
\* a state value that /microsoft/start never gave out
ForgedState == "sX"
\* the tenants that ask for a connection: one that exists and a new one
StartTenants == {"tA", "tN"}
\* connectionId = `conn_${Date.now()}_${random}`, one for each state
connectionIdOf == ("s1" :> "conn_1") @@ ("s2" :> "conn_2")
\* validateState: maxAge = 10 * 60 * 1000, in minutes
maxAge == 10

\* cleanupExpiredPKCE: the entries whose expiresAt is before now are deleted
cleanupExpiredPKCE(map, now) ==
    [k \in {k \in DOMAIN map : ~(map[k].expiresAt < now)} |-> map[k]]

\* GET /connect/microsoft/start?tenantId=t: the tenant is created when it
\* does not exist, a state is generated and the verifier stored under it
MicrosoftStart(t, state) ==
    /\ state \notin issued
    /\ tenants' = IF t \in DOMAIN tenants THEN tenants
                  ELSE (t :> [status |-> "active"]) @@ tenants
    /\ pkceStore' = cleanupExpiredPKCE(
                       (state :> [verifier |-> "v_" \o state, tenantId |-> t,
                                  connectionId |-> connectionIdOf[state],
                                  timestamp |-> clock,
                                  expiresAt |-> clock + 10]) @@ pkceStore, clock)
    /\ issued' = issued \cup {state}
    /\ result' = Some([status |-> 200, state |-> state])
    /\ lastOp' = "other"
    /\ UNCHANGED <<msConnections, mailboxes, usageEvents, inbox, clock, files,
                   folders, users, ensure, arg, callbacks, lifecycle, cycles>>

\* validateState(state): the state parses and is not older than maxAge
validState(state) ==
    /\ state \in issued
    /\ state \in DOMAIN pkceStore => ~(clock - pkceStore[state].timestamp > maxAge)

\* the verifier left in the store when the callback goes on
pkceStoreKeep(state) == pkceStore

\* pkceStore.delete(state)
pkceStoreDelete(state) == [k \in DOMAIN pkceStore \ {state} |-> pkceStore[k]]

\* GET /connect/microsoft/callback?code&state up to its first await: the
\* state is validated, the verifier looked up and removed; 400 otherwise
CallbackBegins(state) ==
    /\ lastOp' = "other"
    /\ UNCHANGED <<tenants, msConnections, mailboxes, usageEvents, inbox, clock,
                   files, folders, users, ensure, arg, issued, lifecycle, cycles>>
    /\ IF ~validState(state) \/ state \notin DOMAIN pkceStore
       THEN /\ result' = Some([status |-> 400, state |-> state])
            /\ UNCHANGED <<pkceStore, callbacks>>
       ELSE /\ pkceStore' = pkceStoreDelete(state)
            /\ callbacks' = callbacks (+)
                   SetToBag({[pc |-> "getTokenFromCodeWithPKCE", state |-> state,
                              verifier |-> pkceStore[state].verifier,
                              tenantId |-> pkceStore[state].tenantId,
                              connectionId |-> pkceStore[state].connectionId]})
            /\ UNCHANGED result

\* the request in state cb goes to pc, or is answered with the status
callbackGoes(cb, pc) ==
    /\ callbacks' = (callbacks (-) SetToBag({cb})) (+) SetToBag({[cb EXCEPT !.pc = pc]})
    /\ UNCHANGED result
callbackEnds(cb, status) ==
    /\ callbacks' = callbacks (-) SetToBag({cb})
    /\ result' = Some([status |-> status, state |-> cb.state])

\* const tokenResponse = await getTokenFromCodeWithPKCE(code, verifier)
CallbackGetToken(cb) ==
    /\ cb.pc = "getTokenFromCodeWithPKCE"
    /\ lastOp' = "other"
    /\ UNCHANGED <<tenants, msConnections, mailboxes, usageEvents, inbox, clock,
                   files, folders, users, ensure, arg, pkceStore, issued,
                   lifecycle, cycles>>
    /\ \/ callbackGoes(cb, "storeTokenSecurely")
       \/ callbackEnds(cb, 302)

\* const tokenRef = await storeTokenSecurely(connectionId, {...})
CallbackStoreToken(cb) ==
    /\ cb.pc = "storeTokenSecurely"
    /\ lastOp' = "other"
    /\ UNCHANGED <<tenants, msConnections, mailboxes, usageEvents, inbox, clock,
                   files, folders, users, ensure, arg, pkceStore, issued,
                   lifecycle, cycles>>
    /\ \/ callbackGoes(cb, "createMsConnection")
       \/ callbackEnds(cb, 302)

\* createMsConnection: set() on tenants/{t}/msConnections/{c}
createMsConnection(t, c, data) ==
    msConnections' =
        IF t \in DOMAIN msConnections
        THEN [msConnections EXCEPT ![t] = (c :> data) @@ @]
        ELSE (t :> (c :> data)) @@ msConnections

\* await createMsConnection(tenantId, connectionId, {...}) and the redirect
CallbackCreateConnection(cb) ==
    /\ cb.pc = "createMsConnection"
    /\ lastOp' = "other"
    /\ UNCHANGED <<tenants, mailboxes, usageEvents, inbox, clock,
                   files, folders, users, ensure, arg, pkceStore, issued,
                   lifecycle, cycles>>
    /\ \/ /\ createMsConnection(cb.tenantId, cb.connectionId,
                                 [status |-> "active",
                                  tokenRef |-> encryptToken(InitialTokens)])
          /\ callbackEnds(cb, 302)
       \/ /\ UNCHANGED msConnections
          /\ callbackEnds(cb, 302)

\* GET /connect/microsoft/callback: storeTokenSecurely of the token response
\* and createMsConnection with the reference
MicrosoftCallback(t, c) ==
    /\ LET tokenRef == encryptToken([accessToken |-> InitialTokens.accessToken,
                                     refreshToken |-> InitialTokens.refreshToken,
                                     expiresOn |-> InitialTokens.expiresOn])
       IN msConnections' = [msConnections EXCEPT
                              ![t][c] = [status |-> "active", tokenRef |-> tokenRef]]
    /\ lastOp' = "other"
    /\ UNCHANGED <<tenants, mailboxes, usageEvents, inbox, clock,
                   files, outside, lifecycle, cycles>>

\* ------------------------------------------------------------- firebase.js
\* storeUserTokens: set({ tokens: { accessToken, refreshToken, expiresOn } },
\* { merge: true }) on users/{userId}
storeUserTokens(userId, tokens) ==
    users' = [users EXCEPT ![userId] =
                Some([tokens |-> [accessToken |-> tokens.accessToken,
                                  refreshToken |-> tokens.refreshToken,
                                  expiresOn |-> tokens.expiresOn]])]

\* getUserTokens: the tokens of the document, None when it does not exist
getUserTokens(userId) ==
    IF users[userId] = None THEN None ELSE Some(users[userId][1].tokens)

\* GET /auth/callback: getTokenFromCode and storeUserTokens
AuthCallback(userId) ==
    /\ storeUserTokens(userId, InitialTokens)
    /\ lastOp' = "other"
    /\ UNCHANGED <<tenants, msConnections, mailboxes, usageEvents, inbox, clock,
                   files, oauth, folders, ensure, arg, result, lifecycle, cycles>>

\* getValidAccessToken of the Graph client of a user, on the path that
\* refreshes: getUserTokens, refreshAccessToken and storeUserTokens
GetValidAccessToken(userId) ==
    /\ getUserTokens(userId) # None
    /\ LET tokens == getUserTokens(userId)[1]
       IN /\ needsRefresh(clock, tokens.expiresOn)
          /\ \E newTokens \in RefreshResponses :
                storeUserTokens(userId, newBundle(newTokens, tokens))
    /\ lastOp' = "other"
    /\ UNCHANGED <<tenants, msConnections, mailboxes, usageEvents, inbox, clock,
                   files, oauth, folders, ensure, arg, result, lifecycle, cycles>>

\* ------------------------------------------------------ the mailbox routes
\* createMailbox: the document that mailboxRef.set() writes
createMailbox(mailboxData) ==
    [connectionId |-> mailboxData.connectionId,
     lastCursor |-> IF "lastCursor" \in DOMAIN mailboxData
                    THEN mailboxData.lastCursor ELSE 0,
     status |-> IF "status" \in DOMAIN mailboxData
                THEN mailboxData.status ELSE "active"]

\* POST /:tenantId/mailboxes with { mailboxId, connectionId, mailboxAddress }
PostMailbox(t, mb, connectionId) ==
    /\ mailboxes' = [mailboxes EXCEPT
                       ![t][mb] = createMailbox([connectionId |-> connectionId])]
    /\ lastOp' = "other"
    /\ UNCHANGED <<tenants, msConnections, usageEvents, inbox, clock,
                   files, outside, lifecycle, cycles>>

\* the request bodies of PUT /:tenantId/mailboxes/:mailboxId
MailboxUpdates == {[status |-> "paused"], [status |-> "active"], [lastCursor |-> 0]}

\* updateMailbox: update({ ...updates }) on the document
updateMailbox(t, mb, updates) ==
    mailboxes' = [mailboxes EXCEPT ![t][mb] = updates @@ @]

\* PUT /:tenantId/mailboxes/:mailboxId
PutMailbox(t, mb, updates) ==
    /\ updateMailbox(t, mb, updates)
    /\ lastOp' = "other"
    /\ UNCHANGED <<tenants, msConnections, usageEvents, inbox, clock,
                   files, outside, lifecycle, cycles>>

\* ---------------------------------------------------------------- time
\* a minute passes
Tick ==
    /\ clock < MaxTime
    /\ clock' = clock + 1
    /\ lastOp' = "other"
    /\ UNCHANGED <<tenants, msConnections, mailboxes, usageEvents, inbox,
                   files, outside, lifecycle, cycles>>

\* ------------------------------------------------------- the specification
CycleStep(c) ==
    \/ GetAllActiveMailboxes(c)
    \/ GetMsConnection(c)
    \/ RetrieveTokenSecurely(c)
    \/ RefreshAccessToken(c)
    \/ UpdateMsConnection(c)
    \/ FetchMessages(c)
    \/ FetchAttachments(c)
    \/ UsageEventExists(c)
    \/ GetActiveMsConnection(c)
    \/ UploadToSharePoint(c)
    \/ PutContent(c)
    \/ CreateUploadSession(c)
    \/ PutChunk(c)
    \/ ResponseJson(c)
    \/ CreateUsageEvent(c)
    \/ UpdateMailboxCursor(c)

Next ==
    \/ startPolling
    \/ stopPolling
    \/ TimerTick
    \/ \E c \in Running : CycleStep(c)
    \/ \E t \in Range(TenantIds), cn \in Range(ConnectionIds) : Revoke(t, cn)
    \/ Tick

Spec == Init /\ [][Next]_vars

\* the schedule in which no invocation of pollAllMailboxes begins while
\* another is in progress, over the full inbox and while time passes
SerialStartPolling == InProgress = 0 /\ startPolling
SerialTimerTick == InProgress = 0 /\ TimerTick

InitSerial == InitWith(MessageIds, 0)

NextSerial ==
    \/ SerialStartPolling
    \/ stopPolling
    \/ SerialTimerTick
    \/ \E c \in Running : CycleStep(c)
    \/ \E t \in Range(TenantIds), cn \in Range(ConnectionIds) : Revoke(t, cn)
    \/ Tick

SpecSerial == InitSerial /\ [][NextSerial]_vars

\* the same schedule, the interval timer of the runtime firing as long as
\* it is registered
SpecSerialFair == InitSerial /\ [][NextSerial]_vars /\ WF_vars(SerialTimerTick)

\* the serial schedule together with the management of the mailboxes
InitManage == InitWith({"m1"}, 0)

NextManage ==
    \/ SerialStartPolling
    \/ stopPolling
    \/ SerialTimerTick
    \/ \E c \in Running : CycleStep(c)
    \/ \E t \in Range(TenantIds), mb \in Range(MailboxIds) :
          \E cn \in Range(ConnectionIds) : PostMailbox(t, mb, cn)
    \/ \E t \in Range(TenantIds), mb \in Range(MailboxIds) :
          \E updates \in MailboxUpdates : PutMailbox(t, mb, updates)

SpecManage == InitManage /\ [][NextManage]_vars

\* the serial schedule over an inbox with one message, whose attachment is
\* at, next to or above the limit of the simple upload
InitUpload == \E m \in LargeMessageIds : InitWith({m}, 0)

NextUpload ==
    \/ SerialStartPolling
    \/ stopPolling
    \/ SerialTimerTick
    \/ \E c \in Running : CycleStep(c)

SpecUpload == InitUpload /\ [][NextUpload]_vars

\* a message arrives in the remote mailbox of a connection
Deliver(cn, m) ==
    /\ m \notin inbox[cn]
    /\ \A n \in inbox[cn] : receivedDateTime[n] < receivedDateTime[m]
    /\ inbox' = [inbox EXCEPT ![cn] = @ \cup {m}]
    /\ lastOp' = "other"
    /\ UNCHANGED <<tenants, msConnections, mailboxes, usageEvents, clock,
                   files, outside, lifecycle, cycles>>

\* overlapping invocations while mail arrives: the inbox holds m1, and m2
\* is received later
InitOverlap == InitWith({"m1"}, 0)

NextOverlap ==
    \/ startPolling
    \/ TimerTick
    \/ \E c \in Running : CycleStep(c)
    \/ \E cn \in Range(ConnectionIds) : Deliver(cn, "m2")

SpecOverlap == InitOverlap /\ [][NextOverlap]_vars

\* the serial schedule over an inbox with a message of two attachments of
\* one name and a later message
InitArchive == InitWith(ArchiveMessageIds, 0)

NextArchive ==
    \/ SerialStartPolling
    \/ stopPolling
    \/ SerialTimerTick
    \/ \E c \in Running : CycleStep(c)

SpecArchive == InitArchive /\ [][NextArchive]_vars

\* the serial schedule over a page with the two-attachment message, a
\* message whose attachment goes through the upload session, and a later
\* message; every remote call that an invocation waits for returns or fails
InitTerminating == InitWith(ArchiveMessageIds \cup {"m7"}, 0)

SpecTerminating ==
    InitTerminating /\ [][NextArchive]_vars
        /\ WF_vars(\E c \in Running : CycleStep(c))

\* the serial schedule for one tenant with two active connections: mb1
\* reads the inbox behind cA and mb2 the inbox behind cB
InitConnections ==
    /\ InitStores(("tA" :> {"cA", "cB"}),
                  ("tA" :> (("mb1" :> "cA") @@ ("mb2" :> "cB"))),
                  ("cA" :> {"m1"}) @@ ("cB" :> {"m2"}), 0)
    /\ InitDrive

SpecConnections == InitConnections /\ [][NextArchive]_vars

\* the serial schedule for two tenants whose inboxes hold a message and an
\* attachment with the same ids; the second mailbox of tA was registered
\* with the id of the connection of tB
InitTenants ==
    /\ InitStores(("tA" :> {"cA"}) @@ ("tB" :> {"cB"}),
                  ("tA" :> (("mb1" :> "cA") @@ ("mb2" :> "cB"))) @@
                  ("tB" :> ("mb1" :> "cB")),
                  ("cA" :> {"m1"}) @@ ("cB" :> {"m1"}), 0)
    /\ InitDrive

SpecTenants == InitTenants /\ [][NextArchive]_vars

\* the serial schedule together with the routes that store tokens, at the
\* time the first token has reached its buffer window
InitTokens == InitWith({"m1"}, InitialTokens.expiresOn - BufferTime)

NextTokens ==
    \/ SerialStartPolling
    \/ stopPolling
    \/ SerialTimerTick
    \/ \E c \in Running : CycleStep(c)
    \/ \E t \in Range(TenantIds), cn \in Range(ConnectionIds) : MicrosoftCallback(t, cn)
    \/ \E userId \in UserIds : AuthCallback(userId)
    \/ \E userId \in UserIds : GetValidAccessToken(userId)

SpecTokens == InitTokens /\ [][NextTokens]_vars

\* calls of ensureFolderStructure, one at a time, on a drive that has the
\* folders of the archive in part, in full or not at all
InitialDrives ==
    { {},
      {<<"Shared Documents">>},
      {<<"Shared Documents">>, <<"Shared Documents", "MailArchive">>},
      ArchiveFolders }

InitFolders ==
    /\ InitPolling({"m1"}, 0)
    /\ folders \in InitialDrives
    /\ users = [u \in UserIds |-> None]
    /\ ensure = NoCall
    /\ arg = None
    /\ result = None

NextFolders ==
    \/ \E year \in Years, month \in Months : CallEnsureFolderStructure(year, month)
    \/ EnsureFolderGet
    \/ EnsureFolderPost

SpecFolders == InitFolders /\ [][NextFolders]_vars

\* calls of sanitizeFileName, each with one of the file names
InitSanitize ==
    /\ InitPolling({"m1"}, 0)
    /\ folders = ArchiveFolders
    /\ users = [u \in UserIds |-> None]
    /\ ensure = NoCall
    /\ arg \in {Some(fileName) : fileName \in FileNames}
    /\ result = None

NextSanitize == SanitizeFileName

SpecSanitize == InitSanitize /\ [][NextSanitize]_vars

\* the OAuth routes of connect.js, the callbacks of one state in any number
\* and order
InitOAuth == InitWith({"m1"}, 0)

NextOAuth ==
    \/ \E t \in StartTenants, state \in StateValues : MicrosoftStart(t, state)
    \/ \E state \in StateValues \cup {ForgedState} : CallbackBegins(state)
    \/ \E cb \in BagToSet(callbacks) : CallbackGetToken(cb)
    \/ \E cb \in BagToSet(callbacks) : CallbackStoreToken(cb)
    \/ \E cb \in BagToSet(callbacks) : CallbackCreateConnection(cb)

SpecOAuth == InitOAuth /\ [][NextOAuth]_vars

\* calls of the vault: encryption and decryption of a token object, storing
\* and retrieving of the tokens of a connection, decryption of a reference
VaultCalls ==
    { [call |-> "encryptToken", tokenData |-> tokenData, iv |-> iv] :
        tokenData \in TokenObjects \cup StoredObjects, iv \in Ivs }
    \cup { [call |-> "storeTokenSecurely", userId |-> userId, tokens |-> tokens,
            now |-> now, iv |-> iv] :
            userId \in UserIdsOfVault, tokens \in TokenObjects,
            now \in StoredAt, iv \in Ivs }
    \cup { [call |-> "decryptToken", tokenRef |-> tokenRef] : tokenRef \in TokenRefs }

InitVault ==
    /\ InitPolling({"m1"}, 0)
    /\ folders = ArchiveFolders
    /\ users = [u \in UserIds |-> None]
    /\ ensure = NoCall
    /\ arg \in {Some(call) : call \in VaultCalls}
    /\ result = None

NextVault ==
    \/ EncryptThenDecrypt
    \/ StoreThenRetrieve
    \/ DecryptToken

SpecVault == InitVault /\ [][NextVault]_vars

\* ================================================================ claims
Last(q) == q[Len(q)]
\* the invocation in state c takes the step
Moved(c) == CopiesIn(c, cycles') < CopiesIn(c, cycles)
TenantOf(c) == Mailbox(c).tenantId
StoredCursor(c) == mailboxes[TenantOf(c)][Mailbox(c).mailboxId].lastCursor
\* the program points of the loop over the messages of a page
LoopPcs == {"fetchAttachments", "usageEventExists", "getActiveMsConnection",
            "uploadToSharePoint", "putContent", "createUploadSession",
            "putChunk", "responseJson", "createUsageEvent"}
\* the program points between the existence check and the ledger write
UploadPcs == {"getActiveMsConnection", "uploadToSharePoint", "putContent",
              "createUploadSession", "putChunk", "responseJson",
              "createUsageEvent"}

\* C1: in every reachable state, overlapping poll cycles included, no
\* tenant's usage collection holds two events with the same sourceId.
UniqueSourceId ==
    \A t \in Range(TenantIds) : \A s \in SourceIds : usageEvents[t][s] <= 1

\* C2: once an attachment has a usage event (its first processing
\* completed), a later poll that overlaps no other performs no upload for
\* it and the ledger keeps exactly one event for its sourceId: no
\* invocation is between the existence check and the ledger write of an
\* attachment that has an event, and no sourceId has two events.
DedupSecondProcessing ==
    /\ \A c \in Running :
         c.pc \in UploadPcs => usageEvents[TenantOf(c)][SourceIdOf(c)] = 0
    /\ \A t \in Range(TenantIds) : \A s \in SourceIds : usageEvents[t][s] \in {0, 1}

\* C2 witness: m1 has its event, the cursor still is the initial one, and a
\* later poll has gone past m1 without processing any attachment.
DedupSecondProcessingWitness ==
    \E c \in Running :
        /\ c.messages # <<>> /\ c.messages[1] = "m1" /\ c.msgi = 2
        /\ c.attachmentsProcessed = 0
        /\ Mailbox(c).lastCursor = 0
        /\ usageEvents[TenantOf(c)][SourceId("m1", "a1")] = 1

\* C3: a poll that advances the cursor from c to c' has attempted every
\* message of the remote mailbox with attachments and c < received <= c'.
CursorCoversAttempted ==
    [][\A c \in Running :
         (c.pc = "updateMailboxCursor" /\ mailboxes' # mailboxes) =>
            LET old == Mailbox(c).lastCursor
                new == mailboxes'[TenantOf(c)][Mailbox(c).mailboxId].lastCursor
            IN \A m \in inbox[Mailbox(c).connectionId] :
                  ( /\ Len(attachmentsOf[m]) > 0
                    /\ old < receivedDateTime[m]
                    /\ receivedDateTime[m] <= new ) => m \in Range(c.messages)
      ]_vars

\* C4: whenever a poll sets the cursor to c', every attachment of every
\* fetched message with received <= c' has a usage event in the ledger.
CursorOnlyAfterSuccess ==
    [][\A c \in Running :
         (c.pc = "updateMailboxCursor" /\ mailboxes' # mailboxes) =>
            LET new == mailboxes'[TenantOf(c)][Mailbox(c).mailboxId].lastCursor
            IN \A i \in 1..Len(c.messages) :
                 receivedDateTime[c.messages[i]] <= new =>
                   \A j \in 1..Len(attachmentsOf[c.messages[i]]) :
                      usageEvents[TenantOf(c)]
                          [SourceId(c.messages[i], attachmentsOf[c.messages[i]][j])] > 0
      ]_vars

\* C5: a poll of a non-empty page goes through all its messages and then
\* to the cursor write with the received time of the last message of the
\* page; every change of a cursor sets it to that time, the greatest of the
\* page; and a poll whose cursor no message of the remote mailbox exceeds
\* fetches nothing and writes nothing.
CursorIsLastOfPage ==
    [][\A c \in Running : Moved(c) =>
         /\ c.pc \in LoopPcs =>
              \E d \in Running' :
                 /\ d.messages = c.messages
                 /\ \/ d.pc \in LoopPcs /\ d.msgi >= c.msgi
                    \/ /\ d.pc = "updateMailboxCursor"
                       /\ c.msgi = Len(c.messages)
                       /\ d.newCursor = receivedDateTime[Last(c.messages)]
         /\ (c.pc = "updateMailboxCursor" /\ mailboxes' # mailboxes) =>
              /\ mailboxes' = [mailboxes EXCEPT
                    ![TenantOf(c)][Mailbox(c).mailboxId].lastCursor =
                        receivedDateTime[Last(c.messages)]]
              /\ \A i \in 1..Len(c.messages) :
                    receivedDateTime[c.messages[i]] <= receivedDateTime[Last(c.messages)]
         /\ c.pc # "updateMailboxCursor" => mailboxes' = mailboxes
         /\ ( /\ c.pc = "fetchMessages"
              /\ Mailbox(c).lastCursor # 0
              /\ \A m \in inbox[Mailbox(c).connectionId] :
                    receivedDateTime[m] <= Mailbox(c).lastCursor ) =>
              /\ UNCHANGED store
              /\ \A d \in Running' : d.pc \notin LoopPcs \cup {"updateMailboxCursor"}
      ]_vars

\* C5 witness: the stored cursor is T3 after a poll of a page T1 < T2 < T3,
\* and the following poll, which read that cursor, is about to fetch.
CursorIsLastOfPageWitness ==
    \E c \in Running :
        /\ c.pc = "fetchMessages"
        /\ Mailbox(c).mailboxId = "mb1"
        /\ Mailbox(c).lastCursor = 3
        /\ StoredCursor(c) = 3

\* C6: a usage event for sourceId s is written only by a processing step
\* whose existence check for s returned false and whose upload of s
\* returned; a step whose upload threw writes none.
EventOnlyAfterUpload ==
    [][\A t \in Range(TenantIds) : \A s \in SourceIds :
         usageEvents'[t][s] # usageEvents[t][s] =>
            /\ usageEvents'[t][s] = usageEvents[t][s] + 1
            /\ \E c \in Running :
                 /\ Moved(c)
                 /\ c.pc = "createUsageEvent"
                 /\ TenantOf(c) = t /\ SourceIdOf(c) = s
                 /\ c.exists = Some(FALSE)
                 /\ c.uploadResult = Some(uploadPath(Message(c), Attachment(c)))
      ]_vars

\* C6 witness: a usage event has been written.
EventOnlyAfterUploadWitness ==
    \E t \in Range(TenantIds) : \E s \in SourceIds : usageEvents[t][s] >= 1

\* C7: at most one poll cycle is in progress at any time.
AtMostOneCycle == InProgress <= 1

\* C8: over any sequence of start and stop calls at most one interval timer
\* is registered, and it is the one pollingInterval holds; startPolling
\* while running and stopPolling while stopped change nothing.
StartStopIdempotent ==
    /\ [](/\ Cardinality(timers) <= 1
          /\ timers = Range(pollingInterval))
    /\ [][/\ (lastOp' = "startPolling" /\ pollingInterval # None) =>
               UNCHANGED <<store, lifecycle, cycles>>
          /\ (lastOp' = "stopPolling" /\ pollingInterval = None) =>
               UNCHANGED <<store, lifecycle, cycles>>
         ]_vars

\* C8 witness: startPolling was called while polling was running (no cycle
\* is in progress after the call) and the one timer is still registered.
StartStopIdempotentWitness ==
    /\ lastOp = "startPolling"
    /\ pollingInterval # None
    /\ InProgress = 0
    /\ Cardinality(timers) = 1

\* C9: a connection's token reference is decrypted, refreshed or used for a
\* remote call only while the status of that connection is 'active'.
TokenPcs == {"retrieveTokenSecurely", "refreshAccessToken", "fetchMessages",
             "fetchAttachments"}

TokenOnlyWhileActive ==
    [][\A c \in Running : Moved(c) =>
         /\ c.pc \in TokenPcs =>
              msConnections[TenantOf(c)][Mailbox(c).connectionId].status = "active"
         /\ c.pc = "uploadToSharePoint" =>
              msConnections[TenantOf(c)][c.upConnection[1].id].status = "active"
      ]_vars

\* C10: when the connection of a mailbox is missing or not 'active',
\* pollMailbox returns with zero counts, the stores are unchanged, and the
\* invocation is at the next mailbox (or has ended) without a token.
InactiveConnectionSkipped ==
    [][\A c \in Running :
         ( /\ Moved(c)
           /\ c.pc = "getMsConnection"
           /\ LET connection == getMsConnection(TenantOf(c), Mailbox(c).connectionId)
              IN connection = None \/ connection[1].status # "active" ) =>
            /\ UNCHANGED store
            /\ c.emailsProcessed = 0 /\ c.attachmentsProcessed = 0
            /\ LET rest == cycles (-) SetToBag({c})
               IN \/ /\ c.mi = Len(c.activeMailboxes)
                     /\ cycles' = rest
                  \/ \E d \in Running' :
                       /\ cycles' = rest (+) SetToBag({d})
                       /\ d.pc = "getMsConnection" /\ d.mi = c.mi + 1
                       /\ d.tokenRef = None /\ d.tokens = None
                       /\ d.accessToken = None /\ d.messages = <<>>
      ]_vars

\* C10 witness: the connection of mb1 is revoked and a poll of mb1 has
\* returned: the invocation is at mb2 while nothing was archived.
InactiveConnectionSkippedWitness ==
    \E c \in Running :
        /\ c.pc = "getMsConnection" /\ c.mi = 2
        /\ c.activeMailboxes[1].mailboxId = "mb1"
        /\ msConnections["tA"]["cA"].status = "revoked"
        /\ \A s \in SourceIds : usageEvents["tA"][s] = 0

\* the invocation that was in state c is in state d after the step
Becomes(c, d) == cycles' = (cycles (-) SetToBag({c})) (+) SetToBag({d})
\* an invocation has come to state d by the step
Arrived(d) == CopiesIn(d, cycles') > CopiesIn(d, cycles)

\* the invocation in state c has left its current mailbox without a result:
\* it is at the next mailbox of its list with the locals of the poll gone,
\* or it has returned after the last one
SkippedToNext(c) ==
    \/ /\ c.mi = Len(c.activeMailboxes)
       /\ cycles' = cycles (-) SetToBag({c})
    \/ \E d \in Running' :
          /\ Becomes(c, d)
          /\ d.pc = "getMsConnection" /\ d.mi = c.mi + 1
          /\ d.activeMailboxes = c.activeMailboxes
          /\ d.accessToken = None /\ d.messages = <<>>
          /\ d.attachmentsProcessed = 0 /\ d.emailsProcessed = 0

\* C11: a poll that has decrypted its token goes to the refresh-token
\* exchange, before any mailbox call, exactly when the clock is at or past
\* the expiry minus 5 minutes: a token that expires in 5 minutes or less is
\* refreshed, any other is used as it is; and the exchange is entered from
\* no other place.
RefreshIffWithinBuffer ==
    [][/\ \A c \in Running :
            (Moved(c) /\ c.pc = "retrieveTokenSecurely") =>
               \/ SkippedToNext(c)
               \/ LET tokens == decryptToken(c.tokenRef[1])
                  IN \E d \in Running' :
                       /\ Becomes(c, d)
                       /\ IF tokens.expiresOn - clock <= 5
                          THEN /\ d.pc = "refreshAccessToken"
                               /\ d.accessToken = None
                               /\ d.tokens = Some(tokens)
                          ELSE /\ d.pc = "fetchMessages"
                               /\ d.accessToken = Some(tokens.accessToken)
       /\ \A d \in Running' :
            (d.pc = "refreshAccessToken" /\ Arrived(d)) =>
               \E c \in Running : Moved(c) /\ c.pc = "retrieveTokenSecurely"
      ]_vars

\* C11 witness: a poll is at the refresh-token exchange with a token that
\* expires in exactly 5 minutes.
RefreshIffWithinBufferWitness ==
    \E c \in Running :
        /\ c.pc = "refreshAccessToken"
        /\ c.tokens[1].expiresOn - clock = 5

\* the program points of the refresh in pollMailbox
RefreshPcs == {"refreshAccessToken", "updateMsConnection"}
ConnectionOf(c) == msConnections[TenantOf(c)][Mailbox(c).connectionId]

\* C12: the step that ends a successful refresh replaces the token
\* reference of the connection, and nothing else, by one that decrypts to
\* the new access token, the new expiry and the new refresh token (the
\* previous one when the provider returned none); the poll has no access
\* token in hand during the refresh and gets the new one only in the step
\* that persists the new reference.
RefreshPersistedBeforeUse ==
    /\ [](\A c \in Running : c.pc \in RefreshPcs => c.accessToken = None)
    /\ [][\A c \in Running : (Moved(c) /\ c.pc = "updateMsConnection") =>
            \A d \in Running' : (Becomes(c, d) /\ d.accessToken # None) =>
               LET new == c.newTokens[1]
                   old == c.tokens[1]
                   ref == msConnections'[TenantOf(c)][Mailbox(c).connectionId].tokenRef
               IN /\ d.pc = "fetchMessages"
                  /\ d.accessToken = Some(new.accessToken)
                  /\ msConnections' =
                        [msConnections EXCEPT
                           ![TenantOf(c)][Mailbox(c).connectionId].tokenRef = ref]
                  /\ validRef(ref)
                  /\ decryptToken(ref).accessToken = new.accessToken
                  /\ decryptToken(ref).expiresOn = new.expiresOn
                  /\ decryptToken(ref).refreshToken =
                        (IF new.refreshToken = "none" THEN old.refreshToken
                         ELSE new.refreshToken)
         ]_vars

\* C12 witness: a poll is about to query the mailbox with the refreshed
\* access token, the provider returned no refresh token, and the stored
\* reference holds the new access token with the previous refresh token.
RefreshPersistedBeforeUseWitness ==
    \E c \in Running :
        /\ c.pc = "fetchMessages"
        /\ c.accessToken = Some("at2")
        /\ decryptToken(ConnectionOf(c).tokenRef) =
              [accessToken |-> "at2", refreshToken |-> "rt1", expiresOn |-> 70]

\* C13: a refresh-token exchange that fails changes no store (the cursor,
\* the token reference and the status of the connection stay), and the
\* invocation leaves the mailbox: it is at the next mailbox or has ended,
\* with no access token, so that it uploads and records nothing for it.
RefreshFailureSkipsMailbox ==
    [][\A c \in Running :
         ( /\ Moved(c)
           /\ c.pc = "refreshAccessToken"
           /\ ~ \E d \in Running' : Becomes(c, d) /\ d.pc = "updateMsConnection" ) =>
            /\ UNCHANGED store
            /\ SkippedToNext(c)
      ]_vars

\* C13 witness: a poll of mb1, which is followed by mb2 in the list, is at
\* the refresh-token exchange, nothing archived yet.
RefreshFailureSkipsMailboxWitness ==
    \E c \in Running :
        /\ c.pc = "refreshAccessToken"
        /\ c.mi = 1 /\ Len(c.activeMailboxes) = 2
        /\ ConnectionOf(c).status = "active"
        /\ \A s \in SourceIds : usageEvents[TenantOf(c)][s] = 0

\* C14: an invocation takes the mailboxes of its enumeration one by one in
\* the order of the list: every step stays at the current mailbox, or goes
\* to the start of the poll of the next one, and no step of a poll, failed
\* or not, ends the invocation before the last mailbox of the list or
\* begins the poll of a mailbox a second time.
EveryMailboxPolledInOrder ==
    [][\A c \in Running : Moved(c) =>
         \/ /\ cycles' = cycles (-) SetToBag({c})
            /\ c.pc = "getAllActiveMailboxes" \/ c.mi = Len(c.activeMailboxes)
         \/ \E d \in Running' :
               /\ Becomes(c, d)
               /\ IF c.pc = "getAllActiveMailboxes"
                  THEN /\ d.activeMailboxes = getAllActiveMailboxes
                       /\ d.mi = 1 /\ d.pc = "getMsConnection"
                  ELSE /\ d.activeMailboxes = c.activeMailboxes
                       /\ \/ d.mi = c.mi /\ d.pc # "getMsConnection"
                          \/ d.mi = c.mi + 1 /\ d.pc = "getMsConnection"
      ]_vars

\* C14 witness: the poll of mb1 has thrown (its connection is active and
\* its inbox has a message, yet its cursor still is the initial one) and
\* the invocation is at the poll of mb2.
EveryMailboxPolledInOrderWitness ==
    \E c \in Running :
        /\ c.pc = "getMsConnection" /\ c.mi = 2
        /\ c.activeMailboxes[1].mailboxId = "mb1"
        /\ msConnections["tA"]["cA"].status = "active"
        /\ mailboxes["tA"]["mb1"].lastCursor = 0

\* C15: no step of an invocation of pollAllMailboxes, the failed
\* enumeration included, touches the timer, and an invocation whose
\* enumeration fails returns with every store as it was; and whenever
\* polling is started and no cycle is in progress, the timer starts a
\* further cycle, unless polling is stopped.
CycleFailureKeepsTimer ==
    /\ [][\A c \in Running : Moved(c) =>
            /\ UNCHANGED lifecycle
            /\ (c.pc = "getAllActiveMailboxes" /\ cycles' = cycles (-) SetToBag({c}))
                  => UNCHANGED store
         ]_vars
    /\ (InProgress = 0 /\ pollingInterval # None)
          ~> (pollingInterval = None \/ InProgress > 0)

\* C15 witness: polling is started and a cycle has ended by an exception
\* (the poll of mb1 did not get to its cursor write although its connection
\* is active and its inbox has a message); no cycle is in progress.
CycleFailureKeepsTimerWitness ==
    /\ InProgress = 0
    /\ pollingInterval # None
    /\ timers # {}
    /\ lastOp = "other"
    /\ msConnections["tA"]["cA"].status = "active"
    /\ mailboxes["tA"]["mb1"].lastCursor = 0

\* C16: the cursor of a mailbox changes only in the cursor write that ends
\* a poll of that mailbox; registering the mailbox again or updating it
\* through the routes leaves the cursor as it is.
CursorOnlyByEngine ==
    [][\A t \in Range(TenantIds) : \A mb \in Range(MailboxIds) :
         mailboxes'[t][mb].lastCursor # mailboxes[t][mb].lastCursor =>
            \E c \in Running :
               /\ Moved(c)
               /\ c.pc = "updateMailboxCursor"
               /\ TenantOf(c) = t /\ Mailbox(c).mailboxId = mb
      ]_vars

\* C17: whenever the uploader takes the access token of the connection it
\* resolved and uploads with it, that token is more than 5 minutes from its
\* expiry.
UploaderTokenOutsideBuffer ==
    [][\A c \in Running :
         ( /\ Moved(c)
           /\ c.pc = "uploadToSharePoint"
           /\ \E d \in Running' :
                 Becomes(c, d) /\ d.pc \in {"putContent", "createUploadSession"} ) =>
            decryptToken(c.upConnection[1].tokenRef).expiresOn - clock > 5
      ]_vars

\* the two ways uploadToSharePoint may take
PathPcs == {"putContent", "createUploadSession"}

\* C18: uploadToSharePoint takes the single-shot write exactly for content
\* strictly below 4 MiB and the chunked session for content at or above it.
SimpleUploadBelowThreshold ==
    [][\A c \in Running : (Moved(c) /\ c.pc = "uploadToSharePoint") =>
         \A d \in Running' : (Becomes(c, d) /\ d.pc \in PathPcs) =>
            (d.pc = "putContent") = (FileSize(c) < 4 * 1024 * 1024)
      ]_vars

\* C18 as amended: uploadToSharePoint takes the single-shot write exactly
\* for content of at most 4 MiB and the chunked session for content
\* strictly above it; content of exactly 4 MiB goes through the single-shot
\* write.
SimpleUploadUpToThreshold ==
    [][\A c \in Running : (Moved(c) /\ c.pc = "uploadToSharePoint") =>
         \A d \in Running' : (Becomes(c, d) /\ d.pc \in PathPcs) =>
            /\ (d.pc = "putContent") = (FileSize(c) <= 4 * 1024 * 1024)
            /\ (d.pc = "createUploadSession") = (FileSize(c) > 4 * 1024 * 1024)
      ]_vars

\* C18 witness: content of exactly 4 MiB is at the single-shot write.
SimpleUploadUpToThresholdWitness ==
    \E c \in Running : c.pc = "putContent" /\ FileSize(c) = 4 * 1024 * 1024

\* the number of chunks of 320 KiB that content of S bytes takes
ChunksOf(S) == (S + 320 * 1024 - 1) \div (320 * 1024)

\* the invocations inside the loop of uploadLargeFile or at its return
ChunkPcs == {"putChunk", "responseJson"}

\* C19: for content of S bytes uploadLargeFile issues exactly ceil(S / 320 KiB)
\* chunk writes, in ascending order, whose byte ranges are contiguous, do not
\* overlap and cover 0..S-1; every chunk but the last is exactly 320 KiB, and
\* the loop ends after the last chunk, whose response is what the upload
\* returns, also when S is an exact multiple of the chunk size.
ChunkedUploadCoversContent ==
    /\ [](\A c \in Running : c.pc \in ChunkPcs =>
            LET S == FileSize(c)
                n == Len(c.sent)
            IN /\ \A i \in 1..n :
                     /\ c.sent[i].from = (i - 1) * (320 * 1024)
                     /\ c.sent[i].to = Min(i * (320 * 1024), S) - 1
                     /\ c.sent[i].total = S
                     /\ i < n => c.sent[i].to - c.sent[i].from + 1 = 320 * 1024
               /\ c.pc = "putChunk" => n < ChunksOf(S)
               /\ c.pc = "responseJson" =>
                     /\ n = ChunksOf(S)
                     /\ c.sent[n].to = S - 1)
    /\ [][\A c \in Running : (Moved(c) /\ c.pc = "responseJson") =>
            \A d \in Running' : Becomes(c, d) =>
               \/ /\ d.pc = "createUsageEvent"
                  /\ d.uploadResult = Some(uploadPath(Message(c), Attachment(c)))
               \/ d.pc \notin ChunkPcs \cup {"createUsageEvent"}
         ]_vars

\* C19 witness: content of exactly 5 MiB, an exact multiple of the chunk
\* size, is at the return of uploadLargeFile with its 16 chunks written.
ChunkedUploadCoversContentWitness ==
    \E c \in Running : /\ c.pc = "responseJson"
                        /\ FileSize(c) = 16 * (320 * 1024)
                        /\ Len(c.sent) = 16

\* the invocation in state d is past the attachment that c is at: at a later
\* attachment or message, or out of the loop over the messages
PastAttachment(c, d) ==
    \/ d.pc \notin LoopPcs
    \/ d.msgi > c.msgi
    \/ d.msgi = c.msgi /\ d.ai > c.ai

\* C20: a chunk write whose response is neither successful nor 202 ends the
\* upload at once: no later chunk is written after it, nothing of the upload
\* is kept to resume, and the invocation goes past the attachment without a
\* usage event for it.
ChunkFailureEndsUpload ==
    /\ [](\A c \in Running : (c.pc \in ChunkPcs /\ c.response # None) =>
            (ok(c.response[1]) \/ c.response[1] = 202))
    /\ [][\A c \in Running : (Moved(c) /\ c.pc = "putChunk") =>
            \A d \in Running' : Becomes(c, d) =>
               \/ /\ d.pc \in ChunkPcs
                  /\ d.response # None
                  /\ ok(d.response[1]) \/ d.response[1] = 202
                  /\ Len(d.sent) = Len(c.sent) + 1
               \/ /\ d.pc \notin ChunkPcs \cup {"createUsageEvent"}
                  /\ PastAttachment(c, d)
                  /\ d.offset = 0 /\ d.sent = <<>> /\ d.response = None
                  /\ d.uploadResult = None
                  /\ UNCHANGED store
         ]_vars

\* C20 witness: a chunked upload is under way, its first chunks accepted and
\* more to write, and the ledger has no event for its attachment.
ChunkFailureEndsUploadWitness ==
    \E c \in Running :
        /\ c.pc = "putChunk"
        /\ Len(c.sent) >= 2
        /\ c.response = Some(202)
        /\ usageEvents[TenantOf(c)][SourceIdOf(c)] = 0

\* the three paths that ensureFolderStructure(client, year, month) looks up
FolderPaths(year, month) ==
    {folderPath(Segments(year, month)[i]) : i \in 1..3}

\* C21: ensureFolderStructure takes the segments in the order archive root,
\* year, month; after a call that has returned, each of its three paths is a
\* folder of the drive; and a call that begins when the three paths are
\* folders, as they are after any call for that year and month that has
\* returned, creates no folder and does not fail, unless a lookup itself
\* fails.
EnsureFolderStructureIdempotent ==
    /\ [](result # None =>
            /\ result[1].outcome = "returned" =>
                  FolderPaths(result[1].year, result[1].month) \subseteq folders
            /\ FolderPaths(result[1].year, result[1].month) \subseteq result[1].before =>
                  /\ result[1].created = {}
                  /\ result[1].outcome \in {"returned", "lookup failed"})
    /\ [](ensure.pc # "idle" =>
            (FolderPaths(ensure.year, ensure.month) \subseteq ensure.before =>
                  ensure.created = {} /\ ensure.pc = "get"))
    /\ [][ensure.pc # "idle" =>
            \/ ensure'.pc # "idle" /\ ensure'.seg \in {ensure.seg, ensure.seg + 1}
            \/ ensure'.pc = "idle" /\ result' # None
                 /\ (result'[1].outcome = "returned" => ensure.seg = 3)
         ]_vars
    /\ [][ensure.pc = "idle" /\ ensure'.pc # "idle" => ensure'.seg = 1]_vars

\* C21 witness: a call for 2024/02 has returned without creating a folder;
\* the folder of that month was made by a call before it.
EnsureFolderStructureIdempotentWitness ==
    /\ result # None
    /\ result[1].outcome = "returned"
    /\ result[1].month = "02"
    /\ result[1].created = {}
    /\ FolderPaths("2024", "02") \subseteq result[1].before

\* the text of str from its last '.', or nothing when it has none
ExtensionOf(str) ==
    IF lastIndexOf(str, ".") < 0 THEN <<>>
    ELSE SubSeq(str, lastIndexOf(str, ".") + 1, Len(str))

\* C22: sanitizeFileName returns a name of at most 128 characters for every
\* file name, those of more than 128 characters without a '.' included, and
\* a name it has truncated ends with the extension of the original.
SanitizedWithinLimit ==
    (arg # None /\ result # None) =>
        /\ Len(result[1]) <= 128
        /\ Len(result[1]) < Len(arg[1]) =>
              /\ ExtensionOf(result[1]) = ExtensionOf(replaceInvalid(arg[1]))

\* the tokens that a reader of the database finds in a document without
\* the key of the vault: a reference shows none, a tokens field shows its own
TokensInClear(doc) ==
    IF "tokens" \in DOMAIN doc
    THEN {doc.tokens.accessToken, doc.tokens.refreshToken}
    ELSE {}

\* C23: no document of the database holds an access token or a refresh
\* token in cleartext: the connection documents hold a reference of the
\* vault, on creation and after every refresh, and the users documents of
\* the per-user token store hold no token in the clear.
NoTokenInCleartext ==
    /\ \A t \in Range(TenantIds), c \in Range(ConnectionIds) :
          /\ validRef(msConnections[t][c].tokenRef)
          /\ TokensInClear(msConnections[t][c]) = {}
    /\ \A userId \in UserIds :
          users[userId] # None => TokensInClear(users[userId][1]) = {}

\* C24 as stated: what comes back is exactly what went in: decryptToken
\* returns the object given to encryptToken, and retrieveTokenSecurely the
\* accessToken, refreshToken and expiresOn given to storeTokenSecurely.
RoundTripExact ==
    (arg # None /\ result # None) =>
        /\ arg[1].call = "encryptToken" =>
               /\ result[1].ok
               /\ \A key \in DOMAIN arg[1].tokenData :
                      Get(result[1].data, key) = arg[1].tokenData[key]
        /\ arg[1].call = "storeTokenSecurely" =>
               /\ result[1].ok
               /\ result[1].data.accessToken = arg[1].tokens.accessToken
               /\ result[1].data.refreshToken = arg[1].tokens.refreshToken
               /\ result[1].data.expiresOn = arg[1].tokens.expiresOn

\* C24, amended: the round trip returns the JSON image of what went in.
\* decryptToken returns the object given to encryptToken with every Date as
\* the ISO string of its instant and without its undefined properties;
\* retrieveTokenSecurely returns accessToken and refreshToken as given, and
\* expiresOn as given when it is a string, as the ISO string of the same
\* instant when it is a Date.
RoundTripJsonImage ==
    (arg # None /\ result # None) =>
        /\ arg[1].call = "encryptToken" =>
               /\ result[1].ok
               /\ \A key \in DOMAIN arg[1].tokenData :
                      LET given == arg[1].tokenData[key]
                          back == Get(result[1].data, key)
                      IN IF given.type = "Date" THEN back = ISOString(given.t)
                         ELSE back = given
               /\ DOMAIN result[1].data \subseteq DOMAIN arg[1].tokenData
        /\ arg[1].call = "storeTokenSecurely" =>
               /\ result[1].ok
               /\ result[1].data.accessToken = arg[1].tokens.accessToken
               /\ result[1].data.refreshToken = arg[1].tokens.refreshToken
               /\ LET given == arg[1].tokens.expiresOn
                  IN IF given.type = "Date"
                     THEN result[1].data.expiresOn = ISOString(given.t)
                     ELSE result[1].data.expiresOn = given

\* C24 witness: tokens with a Date as expiry and no refresh token were
\* stored and retrieved, and the expiry came back as an ISO string.
RoundTripJsonImageWitness ==
    /\ arg # None /\ result # None
    /\ arg[1].call = "storeTokenSecurely"
    /\ arg[1].tokens.expiresOn = DateOf(70)
    /\ arg[1].tokens.refreshToken = Undefined
    /\ result[1].ok
    /\ result[1].data.expiresOn = ISOString(70)

\* C25: decryptToken returns data only for a reference that encryptToken
\* produced; for every other reference it throws.
DecryptOnlyProduced ==
    (arg # None /\ result # None /\ arg[1].call = "decryptToken"
        /\ arg[1].tokenRef \notin Produced) => ~result[1].ok


\* the step takes the invocation in state c out of a drive request that has
\* written the content of its attachment to the drive
Wrote(c) ==
    \E d \in Running' :
        /\ Becomes(c, d)
        /\ \/ c.pc = "putContent" /\ d.pc = "createUsageEvent"
           \/ /\ c.pc = "putChunk" /\ d.pc = "responseJson"
              /\ ok(d.response[1])

\* C29: over any sequence of cycles, with ledger and cursor writes that may
\* fail, the content of one sourceId is written to the drive at most once:
\* no write takes place for a sourceId that the drive already holds.
UploadedAtMostOnce ==
    [][\A c \in Running : (Moved(c) /\ Wrote(c)) =>
          ~\E f \in files : f.sourceId = SourceIdOf(c)]_vars

\* C30: when the upload of an attachment has returned and the step of the
\* attachment ends, the ledger holds a usage event for its sourceId.
UploadedIsRecorded ==
    [][\A c \in Running :
          (Moved(c) /\ c.pc = "createUsageEvent" /\ c.uploadResult # None) =>
              usageEvents'[TenantOf(c)][SourceIdOf(c)] > 0]_vars


\* C27: two attachments with different sourceIds are never written to the
\* same destination: no item of the drive that holds the content of one
\* sourceId comes to hold the content of another.
DestinationsNotShared ==
    [][\A f \in files, g \in files' :
          (f.path = g.path /\ f.copy = g.copy) => f.sourceId = g.sourceId]_vars

\* the invocation in state d goes on with what follows the attachment that c
\* is at: the next attachment of the message, or the next message of the
\* page after its last attachment, or what follows the loop over the
\* messages after the last message
GoesOn(c, d) ==
    IF c.ai < Len(c.attachments)
    THEN /\ d.pc = "usageEventExists"
         /\ d.ai = c.ai + 1 /\ d.attachments = c.attachments
         /\ d.msgi = c.msgi /\ d.messages = c.messages
    ELSE IF c.msgi < Len(c.messages)
         THEN /\ d.pc = "fetchAttachments"
              /\ d.msgi = c.msgi + 1 /\ d.messages = c.messages
              /\ d.emailsProcessed = c.emailsProcessed + 1
         ELSE /\ d.pc = "updateMailboxCursor"
              /\ d.newCursor = receivedDateTime[Message(c)]
              /\ d.emailsProcessed = c.emailsProcessed + 1

\* C28: a failure on one attachment, of the upload or of the ledger write,
\* stops neither the remaining attachments of the message nor the remaining
\* messages of the page: every step that takes an invocation out of the
\* try of an attachment, by success or by failure, takes it to the next
\* attachment of the message, after the last one to the next message of the
\* page, and after the last message to the write of the cursor.
AttachmentFailureContained ==
    [][\A c \in Running : (Moved(c) /\ c.pc \in UploadPcs) =>
          \E d \in Running' :
             /\ Becomes(c, d)
             /\ \/ /\ d.pc \in UploadPcs
                   /\ d.msgi = c.msgi /\ d.ai = c.ai
                   /\ d.messages = c.messages /\ d.attachments = c.attachments
                \/ GoesOn(c, d)
      ]_vars

\* C28 witness: the first attachment of m10 is on the drive and the write
\* of its usage event has failed, and the invocation is at the upload of
\* the second attachment of the message.
AttachmentFailureContainedWitness ==
    \E c \in Running :
        /\ c.pc = "putContent"
        /\ Message(c) = "m10" /\ c.ai = 2
        /\ \E f \in files : f.sourceId = SourceId("m10", "b1")
        /\ usageEvents[TenantOf(c)][SourceId("m10", "b1")] = 0


\* C26: the cursor of a mailbox never decreases, whatever the overlap of the
\* invocations of the poll cycle.
CursorNeverDecreases ==
    [][\A t \in Range(TenantIds), mb \in Range(MailboxIds) :
          mailboxes'[t][mb].lastCursor >= mailboxes[t][mb].lastCursor]_vars


\* C31: a poll cycle polls a mailbox only while the mailbox and its tenant
\* are active: when an invocation makes the first call of pollMailbox for a
\* mailbox of its list, the stored status of the mailbox and of its tenant
\* is 'active', also when it was changed after the enumeration.
PolledOnlyWhileActive ==
    [][\A c \in Running : (Moved(c) /\ c.pc = "getMsConnection") =>
          /\ tenants[TenantOf(c)].status = "active"
          /\ mailboxes[TenantOf(c)][Mailbox(c).mailboxId].status = "active"]_vars


\* C36: after stopPolling has returned, no new poll cycle begins until
\* startPolling is called again: while pollingInterval is null, the only
\* step that begins an invocation of pollAllMailboxes is a call of
\* startPolling.
NoCycleAfterStop ==
    [][(pollingInterval = None /\ InProgress' > InProgress) =>
          lastOp' = "startPolling"]_vars

\* C36 witness: polling ran, a cycle wrote the cursor of mb1, and
\* stopPolling has just returned with the timer cleared.
NoCycleAfterStopWitness ==
    /\ lastOp = "stopPolling"
    /\ pollingInterval = None
    /\ timers = {}
    /\ mailboxes["tA"]["mb1"].lastCursor = 1


\* the step takes a callback with the state to the token exchange
Proceeds(state) ==
    \E cb \in BagToSet(callbacks') :
        /\ cb.state = state /\ cb.pc = "getTokenFromCodeWithPKCE"
        /\ CopiesIn(cb, callbacks') > CopiesIn(cb, callbacks)

\* C35: each state value of the start step lets at most one callback go on
\* to the token exchange: a callback goes on only with a state whose
\* verifier is stored and removes it in the same step; a verifier once
\* removed is never stored again; and a callback that is rejected changes
\* neither the store nor the connections.
StateConsumedOnce ==
    /\ [](\A cb \in BagToSet(callbacks) :
            /\ CopiesIn(cb, callbacks) = 1
            /\ \A other \in BagToSet(callbacks) : other.state = cb.state => other = cb
            /\ cb.state \notin DOMAIN pkceStore
            /\ cb.tenantId \in DOMAIN msConnections =>
                   cb.connectionId \notin DOMAIN msConnections[cb.tenantId])
    /\ [][\A state \in StateValues \cup {ForgedState} :
          /\ Proceeds(state) =>
                 state \in DOMAIN pkceStore /\ state \notin DOMAIN pkceStore'
          /\ (state \in issued /\ state \notin DOMAIN pkceStore) =>
                 state \notin DOMAIN pkceStore'
          /\ (result' # result /\ result' = Some([status |-> 400, state |-> state])) =>
                 UNCHANGED <<pkceStore, callbacks, msConnections>>
      ]_vars

\* C35 witness: a callback with s1 is at the token exchange, and a later
\* callback with s1 has been answered 400.
StateConsumedOnceWitness ==
    /\ result = Some([status |-> 400, state |-> "s1"])
    /\ "s1" \in issued
    /\ \E cb \in BagToSet(callbacks) :
          cb.state = "s1" /\ cb.pc = "getTokenFromCodeWithPKCE"


\* C32: every poll cycle over finitely many mailboxes, messages and
\* attachments ends and leaves the engine idle, whatever fails on the way,
\* provided every remote call returns or fails.
CycleTerminates == (InProgress > 0) ~> (InProgress = 0)

\* C32 witness: an invocation is at its second mailbox after the poll of
\* the first one threw at the write of the cursor, with a file on the drive
\* that has no usage event.
CycleTerminatesWitness ==
    \E c \in Running :
        /\ c.mi = 2
        /\ mailboxes["tA"]["mb1"].lastCursor = 0
        /\ \E f \in files : usageEvents["tA"][f.sourceId] = 0


\* C34: the connection whose token uploads an attachment is the connection
\* of the mailbox the attachment was fetched from: when an invocation has
\* read the connection for the upload, its id is the connectionId of the
\* mailbox being polled.
UploadsWithMailboxConnection ==
    [][\A c \in Running : \A d \in Running' :
          (Becomes(c, d) /\ c.pc = "getActiveMsConnection"
                         /\ d.pc = "uploadToSharePoint") =>
             d.upConnection[1].id = Mailbox(c).connectionId]_vars


====
